---- MODULE Spec2Model ----
(***************************************************************************)
(* Classroom-management API (src/server.js, src/middleware/                *)
(* authMiddleware.js): the relational store, the signed identity tokens    *)
(* and the Express request pipeline  auth -> authorizeRole -> handler,     *)
(* each handler stepping through its store statements one at a time (every *)
(* `await connection.execute` commits on its own: there is no transaction).*)
(***************************************************************************)
EXTENDS Integers, Sequences, FiniteSets, TLC

\* ------------------------------------------------------------------ bounds
\* Requests issued in one behaviour.
MaxRequests == 3
\* Requests of the concurrent specifications that may be in flight together.
MaxInFlight == 2
\* Codes one class-creation request draws before it finds an unused one.
MaxDraws == 2

\* ------------------------------------------------------------------- store
VARIABLES
  Users,            \* rows [id, role]
  Classes,          \* rows [id, code, professeur_id]
  UserClasses,      \* rows [id, user_id, class_id, role_dans_classe]
  Announcements,    \* rows [id, class_id, professeur_id]
  Documentations,   \* rows [id, class_id, professeur_id]
  Tasks,            \* rows [id, class_id, professeur_id]
  Submissions,      \* rows [id, task_id, student_id, content, submitted_at,
                    \*       grade, correction_feedback]
  ClassMembers,     \* rows [class_id, user_id]
  Projets,          \* rows [id, class_id]
  Groupes,          \* rows [id, projet_id]
  MembresGroupe,    \* rows [group_id, user_id]
  GroupMembersTable, \* table GroupMembers: rows [groupId, userId,
                    \*       isGroupCoordinator]
  Messages,         \* rows [id, sender_id, receiver_id, class_id,
                    \*       message_type], 0 for a NULL id
  issued,           \* claims {id, role} of the tokens signed so far
  reqs,             \* the requests: slot -> request record
  now               \* requests started so far (also CURRENT_TIMESTAMP)

userTables    == <<Users>>
classTables   == <<Classes, UserClasses>>
contentTables == <<Announcements, Documentations, Tasks>>
projectTables ==
  <<ClassMembers, Projets, Groupes, MembresGroupe, GroupMembersTable>>
store == <<Users, Classes, UserClasses, Announcements, Documentations, Tasks,
           Submissions, projectTables, Messages>>
vars  == <<store, issued, reqs, now>>

Roles == {"Etudiant", "Professeur", "Coordinateur"}
NULL  == "NULL"

\* ------------------------------------------------------------ conversions
\* A route parameter is a string: a sequence of one-character strings.
Digits == <<"0", "1", "2", "3", "4", "5", "6", "7", "8", "9">>
IsDigit(c) == \E i \in 1..10 : Digits[i] = c
DigitVal(c) == (CHOOSE i \in 1..10 : Digits[i] = c) - 1
Str(n) == <<Digits[n + 1]>>

RECURSIVE Pow10(_)
Pow10(k) == IF k = 0 THEN 1 ELSE 10 * Pow10(k - 1)

\* The longest prefix of digits of s from position i: <<value, digits read>>.
RECURSIVE DigitRun(_, _, _, _)
DigitRun(s, i, acc, n) ==
  IF i <= Len(s) /\ IsDigit(s[i])
    THEN DigitRun(s, i + 1, 10 * acc + DigitVal(s[i]), n + 1)
    ELSE <<acc, n>>

RECURSIVE SkipSpaces(_, _)
SkipSpaces(s, i) == IF i <= Len(s) /\ s[i] = " " THEN SkipSpaces(s, i + 1) ELSE i

\* JavaScript parseInt(s): leading white space, an optional sign, then the
\* longest run of decimal digits; NaN when there is none.
ParseInt(s) ==
  LET i    == SkipSpaces(s, 1)
      neg  == i <= Len(s) /\ s[i] = "-"
      j    == IF i <= Len(s) /\ s[i] \in {"-", "+"} THEN i + 1 ELSE i
      run  == DigitRun(s, j, 0, 0)
  IN IF run[2] = 0 THEN [nan |-> TRUE, n |-> 0]
     ELSE [nan |-> FALSE, n |-> IF neg THEN 0 - run[1] ELSE run[1]]

\* JavaScript a === b for a parsed number a and an integer b.
StrictEq(a, b) == ~a.nan /\ a.n = b

\* MySQL's reading of a string parameter compared with an integer column
\* (`WHERE id = ?` bound to a route parameter): a floating-point literal
\* [sign] digits [. digits] [e [sign] digits], read in four steps, each
\* handing the next what it found and where it stopped.
SqlSign(s) ==
  LET i == SkipSpaces(s, 1) IN
  [neg |-> i <= Len(s) /\ s[i] = "-",
   at  |-> IF i <= Len(s) /\ s[i] \in {"-", "+"} THEN i + 1 ELSE i]
SqlInteger(s, p) ==
  LET run == DigitRun(s, p.at, 0, 0) IN
  [neg |-> p.neg, mant |-> run[1], digits |-> run[2], at |-> p.at + run[2]]
SqlFraction(s, p) ==
  LET dot == p.at <= Len(s) /\ s[p.at] = "."
      run == IF dot THEN DigitRun(s, p.at + 1, p.mant, 0) ELSE <<p.mant, 0>>
  IN [neg |-> p.neg, mant |-> run[1], digits |-> p.digits + run[2],
      scale |-> run[2], at |-> IF dot THEN p.at + 1 + run[2] ELSE p.at]
SqlExponent(s, p) ==
  LET hasE   == /\ p.at <= Len(s) /\ s[p.at] \in {"e", "E"}
                /\ p.digits > 0
      signed == hasE /\ p.at + 1 <= Len(s) /\ s[p.at + 1] \in {"-", "+"}
      run    == IF hasE
                  THEN DigitRun(s, IF signed THEN p.at + 2 ELSE p.at + 1, 0, 0)
                  ELSE <<0, 0>>
  IN [digits |-> p.digits,
      mant   |-> IF p.neg THEN 0 - p.mant ELSE p.mant,
      exp    |-> (IF signed /\ s[p.at + 1] = "-" THEN 0 - run[1] ELSE run[1])
                   - p.scale]
\* The number read: mant * 10^exp, or 0 when the string starts with no digit.
SqlNumber(s) == SqlExponent(s, SqlFraction(s, SqlInteger(s, SqlSign(s))))

\* SqlEq(n, s): the column value n equals the string s.
SqlEq(n, s) ==
  LET x == SqlNumber(s) IN
  IF x.digits = 0 THEN n = 0
  ELSE IF x.exp >= 0 THEN n = x.mant * Pow10(x.exp)
  ELSE n * Pow10(0 - x.exp) = x.mant

\* ------------------------------------------------------------------ tokens
\* A request's x-auth-token header. kind "none": no header; "malformed": not
\* a JWT; "expired": signed by this server more than 1 h ago; "badsig": not
\* signed with JWT_SECRET; "valid": signed by this server and still valid.
NoUser    == [id |-> 0, role |-> "-"]
NoToken   == [kind |-> "none", id |-> 0, role |-> "-"]
Malformed == [kind |-> "malformed", id |-> 0, role |-> "-"]
ExpiredTokens == {[kind |-> "expired", id |-> t.id, role |-> t.role] : t \in issued}
ForgedTokens  == {[kind |-> "badsig", id |-> u.id, role |-> "Coordinateur"] : u \in Users}
ValidTokens   == {[kind |-> "valid", id |-> t.id, role |-> t.role] : t \in issued}
TokenInputs   == {NoToken, Malformed} \cup ExpiredTokens \cup ForgedTokens
                   \cup ValidTokens
\* The callers of the specifications that are not about the token itself.
Callers       == {NoToken} \cup ValidTokens

\* jwt.verify(token, JWT_SECRET): returns the claims or throws.
JwtVerifyAcceptsAll(tok) == TRUE
JwtVerify(tok) == tok.kind = "valid"

\* jwt.sign({id, email, role}, JWT_SECRET, {expiresIn: '1h'})
JwtSign(id, role) == [id |-> id, role |-> role]

\* ------------------------------------------------------------------ routes
RoleGateCoordinatorOnly(route) == {"Coordinateur"}
\* The routes mounted behind `auth`, each with the allow-list of its
\* authorizeRole middleware (Roles when the route has none).
RoleGate(route) ==
  CASE route = "POST /api/classes"                        -> {"Professeur"}
    [] route = "GET /api/classes/professeur"              -> {"Professeur"}
    [] route = "GET /api/classes/me"                      -> Roles
    [] route = "POST /api/classes/join"                   -> {"Etudiant"}
    [] route = "POST /api/announcements"                  -> {"Professeur"}
    [] route = "GET /api/announcements/:classId"          -> Roles
    [] route = "POST /api/documentations"                 -> {"Professeur"}
    [] route = "GET /api/documentations/:classId"         -> Roles
    [] route = "POST /api/tasks"                          -> {"Professeur"}
    [] route = "GET /api/tasks/class/:classId"            -> Roles
    [] route = "POST /api/tasks/:taskId/submit"           -> {"Etudiant"}
    [] route = "GET /api/tasks/:taskId/submissions"       -> {"Professeur"}
    [] route = "PUT /api/submissions/:submissionId/grade" -> {"Professeur"}
    [] route = "GET /api/submissions/:submissionId"       -> Roles
    [] route = "GET /api/users/me/submissions"            -> {"Etudiant"}
    [] route = "POST /api/messages"                       -> Roles
    [] route = "GET /api/messages/public/class/:classId"  -> Roles
    [] route = "GET /api/messages/private/me"             -> Roles
    [] route = "GET /api/users/all"          -> {"Professeur", "Coordinateur"}
    [] route = "POST /api/projects"          -> {"Professeur", "Coordinateur"}
    [] route = "GET /api/projects/class/:classId"         -> Roles
    [] route = "POST /api/groups"            -> {"Professeur", "Coordinateur"}
    [] route = "GET /api/groups/project/:projectId"       -> Roles
    [] route = "POST /api/groups/:groupId/members"
                                             -> {"Professeur", "Coordinateur"}
    [] route = "DELETE /api/groups/:groupId/members/:userId"
                                             -> {"Professeur", "Coordinateur"}
    [] route = "GET /api/classes/:classId/students"       -> Roles
    [] route = "PUT /api/users/:userId/role"              -> {"Coordinateur"}
    [] route = "DELETE /api/users/:userId"                -> {"Coordinateur"}

HasRoleGateNever(route) == FALSE
\* Whether the route is mounted with an authorizeRole middleware at all.
HasRoleGate(route) == RoleGate(route) # Roles

\* ---------------------------------------------------------------- requests
Slots == 1..MaxInFlight

Idle == [route |-> "-", tok |-> NoToken, arg |-> <<>>, pc |-> "idle",
         user |-> NoUser, loc |-> <<>>, status |-> 0, conn |-> "none",
         stmts |-> 0, writes |-> 0, body |-> {}]

NewRequest(route, tok, arg) ==
  [Idle EXCEPT !.route = route, !.tok = tok, !.arg = arg, !.pc = "auth"]

\* res.status(code).json(...), then the handler's `finally`:
\* if (connection) connection.end().
RespondNotFoundAfterWrite(r, code) ==
  [r EXCEPT !.pc = "done",
            !.status = IF code = 200 /\ r.writes > 0 THEN 404 ELSE code,
            !.conn = IF r.conn = "open" THEN "closed" ELSE r.conn]
RespondLeavingOpen(r, code) == [r EXCEPT !.pc = "done", !.status = code]
Respond(r, code) ==
  [r EXCEPT !.pc = "done", !.status = code,
            !.conn = IF r.conn = "open" THEN "closed" ELSE r.conn]
RespondWith(r, code, rows) == [Respond(r, code) EXCEPT !.body = rows]

\* connection = await getConnection()
Connect(r, pc) == [r EXCEPT !.conn = "open", !.pc = pc]
\* One `await connection.execute(...)` that reads.
Read(r, pc) == [r EXCEPT !.stmts = r.stmts + 1, !.pc = pc]
\* One `await connection.execute(...)` that inserts, updates or deletes.
Write(r) == [r EXCEPT !.stmts = r.stmts + 1, !.writes = r.writes + 1]

Set(s, r) == reqs' = [reqs EXCEPT ![s] = r]

\* A client sends a request while no other is being handled.
CanStart == now < MaxRequests /\ \A s \in Slots : reqs[s].pc = "idle"
Start(route, tok, arg) ==
  /\ CanStart
  /\ Set(1, NewRequest(route, tok, arg))
  /\ now' = now + 1
  /\ UNCHANGED <<store, issued>>

\* A client sends a request while others may be in flight.
CanStartConcurrent == now < MaxRequests /\ \E s \in Slots : reqs[s].pc = "idle"
StartConcurrent(route, tok, arg) ==
  /\ CanStartConcurrent
  /\ \E s \in Slots :
       /\ reqs[s].pc = "idle"
       /\ \A t \in Slots : t < s => reqs[t].pc # "idle"
       /\ Set(s, NewRequest(route, tok, arg))
  /\ now' = now + 1
  /\ UNCHANGED <<store, issued>>

\* The response has been sent: the request is over.
Finish(s) ==
  /\ reqs[s].pc = "done"
  /\ Set(s, Idle)
  /\ UNCHANGED <<store, issued, now>>

\* -------------------------------------------------------------- middleware
\* auth (authMiddleware.js): 401 without a token or when jwt.verify throws;
\* otherwise req.user = decoded and next().
Auth(s) ==
  LET r == reqs[s] IN
  /\ r.pc = "auth"
  /\ IF r.tok.kind = "none" THEN Set(s, Respond(r, 401))
     ELSE IF JwtVerify(r.tok)
       THEN Set(s, [r EXCEPT !.user = [id |-> r.tok.id, role |-> r.tok.role],
                             !.pc = IF HasRoleGate(r.route) THEN "role"
                                    ELSE "handler"])
       ELSE Set(s, Respond(r, 401))
  /\ UNCHANGED <<store, issued, now>>

\* authorizeRole(roles): 403 unless req.user.role is in the allow-list.
RoleAllowedAlways(r) == TRUE
RoleAllowedByStore(r) ==
  \E u \in Users : u.id = r.user.id /\ u.role \in RoleGate(r.route)
RoleAllowed(r) == r.user # NoUser /\ r.user.role \in RoleGate(r.route)

AuthorizeRole(s) ==
  LET r == reqs[s] IN
  /\ r.pc = "role"
  /\ IF RoleAllowed(r) THEN Set(s, [r EXCEPT !.pc = "handler"])
     ELSE Set(s, Respond(r, 403))
  /\ UNCHANGED <<store, issued, now>>

\* ----------------------------------------------------------------- queries
\* SELECT id FROM Classes WHERE id = ? AND professeur_id = ?
OwnsClassAnyTeacher(cid, uid) == \E c \in Classes : c.id = cid
OwnsClass(cid, uid) ==
  \E c \in Classes : c.id = cid /\ c.professeur_id = uid
\* SELECT id FROM UserClasses WHERE user_id = ? AND class_id = ?
EnrollmentInAnyClass(uid, cid) == {m \in UserClasses : m.user_id = uid}
Enrollment(uid, cid) ==
  {m \in UserClasses : m.user_id = uid /\ m.class_id = cid}
\* AUTO_INCREMENT of a table no row of which is ever deleted.
NextId(table) ==
  IF table = {} THEN 1
  ELSE (CHOOSE i \in {x.id : x \in table} :
          \A y \in table : y.id <= i) + 1

\* ------------------------------------------------- announcements, documents
\* Rows of `table` of class `classId` (a route parameter) whose author still
\* has a Users row:  ... FROM table X JOIN Users U ON X.professeur_id = U.id
\* WHERE X.class_id = ?
RowsOfClass(table, classId) ==
  {x.id : x \in {y \in table : /\ SqlEq(y.class_id, classId)
                                /\ \E u \in Users : u.id = y.professeur_id}}

\* POST /api/announcements
PostAnnouncements(s) ==
  LET r == reqs[s] IN
  /\ r.route = "POST /api/announcements"
  /\ \/ /\ r.pc = "handler"
        /\ IF r.arg.class_id = 0 \/ r.arg.titre = "" \/ r.arg.contenu = ""
             THEN Set(s, Respond(r, 400))
             ELSE Set(s, Connect(r, "selectClass"))
        /\ UNCHANGED <<store, issued, now>>
     \/ /\ r.pc = "selectClass"
        /\ IF OwnsClass(r.arg.class_id, r.user.id)
             THEN Set(s, Read(r, "insert"))
             ELSE Set(s, Respond(Read(r, "selectClass"), 403))
        /\ UNCHANGED <<store, issued, now>>
     \/ /\ r.pc = "insert"
        /\ Announcements' = Announcements \cup
             {[id |-> NextId(Announcements), class_id |-> r.arg.class_id,
               professeur_id |-> r.user.id]}
        /\ Set(s, Respond(Write(r), 201))
        /\ UNCHANGED <<Users, Classes, UserClasses, Documentations, Tasks,
                       Submissions, projectTables, Messages, issued, now>>

\* POST /api/documentations
PostDocumentations(s) ==
  LET r == reqs[s] IN
  /\ r.route = "POST /api/documentations"
  /\ \/ /\ r.pc = "handler"
        /\ IF r.arg.class_id = 0 \/ r.arg.titre = ""
             THEN Set(s, Respond(r, 400))
             ELSE Set(s, Connect(r, "selectClass"))
        /\ UNCHANGED <<store, issued, now>>
     \/ /\ r.pc = "selectClass"
        /\ IF OwnsClass(r.arg.class_id, r.user.id)
             THEN Set(s, Read(r, "insert"))
             ELSE Set(s, Respond(Read(r, "selectClass"), 403))
        /\ UNCHANGED <<store, issued, now>>
     \/ /\ r.pc = "insert"
        /\ Documentations' = Documentations \cup
             {[id |-> NextId(Documentations), class_id |-> r.arg.class_id,
               professeur_id |-> r.user.id]}
        /\ Set(s, Respond(Write(r), 201))
        /\ UNCHANGED <<Users, Classes, UserClasses, Announcements, Tasks,
                       Submissions, projectTables, Messages, issued, now>>

\* POST /api/tasks
PostTasks(s) ==
  LET r == reqs[s] IN
  /\ r.route = "POST /api/tasks"
  /\ \/ /\ r.pc = "handler"
        /\ IF r.arg.class_id = 0 \/ r.arg.titre = "" \/ r.arg.date_limite = ""
             THEN Set(s, Respond(r, 400))
             ELSE Set(s, Connect(r, "selectClass"))
        /\ UNCHANGED <<store, issued, now>>
     \/ /\ r.pc = "selectClass"
        /\ IF OwnsClass(r.arg.class_id, r.user.id)
             THEN Set(s, Read(r, "insert"))
             ELSE Set(s, Respond(Read(r, "selectClass"), 403))
        /\ UNCHANGED <<store, issued, now>>
     \/ /\ r.pc = "insert"
        /\ Tasks' = Tasks \cup
             {[id |-> NextId(Tasks), class_id |-> r.arg.class_id,
               professeur_id |-> r.user.id]}
        /\ Set(s, Respond(Write(r), 201))
        /\ UNCHANGED <<Users, Classes, UserClasses, Announcements,
                       Documentations, Submissions, projectTables, Messages,
                       issued, now>>

\* SELECT id FROM UserClasses WHERE user_id = ? AND class_id = ?  with the
\* class a route parameter, and the fallback
\* SELECT id FROM Classes WHERE id = ? AND professeur_id = ?
EnrolledInAnyClass(uid, classId) == \E m \in UserClasses : m.user_id = uid
EnrolledIn(uid, classId) ==
  \E m \in UserClasses : m.user_id = uid /\ SqlEq(m.class_id, classId)
IsProfessorOf(uid, classId) ==
  \E c \in Classes : SqlEq(c.id, classId) /\ c.professeur_id = uid

\* GET /api/announcements/:classId
GetAnnouncements(s) ==
  LET r == reqs[s] IN
  /\ r.route = "GET /api/announcements/:classId"
  /\ \/ /\ r.pc = "handler"
        /\ Set(s, Connect(r, "selectEnrollment"))
     \/ /\ r.pc = "selectEnrollment"
        /\ IF EnrolledIn(r.user.id, r.arg.classId)
             THEN Set(s, Read(r, "selectRows"))
             ELSE Set(s, Read(r, "selectIsProfessor"))
     \/ /\ r.pc = "selectIsProfessor"
        /\ IF IsProfessorOf(r.user.id, r.arg.classId)
             THEN Set(s, Read(r, "selectRows"))
             ELSE Set(s, Respond(Read(r, "selectIsProfessor"), 403))
     \/ /\ r.pc = "selectRows"
        /\ Set(s, RespondWith(Read(r, "selectRows"), 200,
                              RowsOfClass(Announcements, r.arg.classId)))
  /\ UNCHANGED <<store, issued, now>>

\* GET /api/documentations/:classId
GetDocumentations(s) ==
  LET r == reqs[s] IN
  /\ r.route = "GET /api/documentations/:classId"
  /\ \/ /\ r.pc = "handler"
        /\ Set(s, Connect(r, "selectEnrollment"))
     \/ /\ r.pc = "selectEnrollment"
        /\ IF EnrolledIn(r.user.id, r.arg.classId)
             THEN Set(s, Read(r, "selectRows"))
             ELSE Set(s, Read(r, "selectIsProfessor"))
     \/ /\ r.pc = "selectIsProfessor"
        /\ IF IsProfessorOf(r.user.id, r.arg.classId)
             THEN Set(s, Read(r, "selectRows"))
             ELSE Set(s, Respond(Read(r, "selectIsProfessor"), 403))
     \/ /\ r.pc = "selectRows"
        /\ Set(s, RespondWith(Read(r, "selectRows"), 200,
                              RowsOfClass(Documentations, r.arg.classId)))
  /\ UNCHANGED <<store, issued, now>>

\* GET /api/tasks/class/:classId: both lookups run, then one test.
GetTasksOfClass(s) ==
  LET r == reqs[s] IN
  /\ r.route = "GET /api/tasks/class/:classId"
  /\ \/ /\ r.pc = "handler"
        /\ Set(s, Connect(r, "selectEnrollment"))
     \/ /\ r.pc = "selectEnrollment"
        /\ Set(s, [Read(r, "selectIsProfessor") EXCEPT
                     !.loc = [enrollment |-> EnrolledIn(r.user.id, r.arg.classId)]])
     \/ /\ r.pc = "selectIsProfessor"
        /\ IF ~r.loc.enrollment /\ ~IsProfessorOf(r.user.id, r.arg.classId)
             THEN Set(s, Respond(Read(r, "selectIsProfessor"), 403))
             ELSE Set(s, Read(r, "selectRows"))
     \/ /\ r.pc = "selectRows"
        /\ Set(s, RespondWith(Read(r, "selectRows"), 200,
                              RowsOfClass(Tasks, r.arg.classId)))
  /\ UNCHANGED <<store, issued, now>>

\* POST /api/classes/join
JoinClass(s) ==
  LET r == reqs[s] IN
  /\ r.route = "POST /api/classes/join"
  /\ \/ /\ r.pc = "handler"
        /\ IF r.arg.code = "" THEN Set(s, Respond(r, 400))
           ELSE Set(s, Connect(r, "selectClass"))
        /\ UNCHANGED <<store, issued, now>>
     \/ /\ r.pc = "selectClass"
        /\ LET classes == {c \in Classes : c.code = r.arg.code} IN
           IF classes = {} THEN Set(s, Respond(Read(r, "selectClass"), 404))
           ELSE \E c \in classes :
                  Set(s, [Read(r, "selectEnrollment") EXCEPT
                            !.loc = [classToJoin |-> c.id]])
        /\ UNCHANGED <<store, issued, now>>
     \/ /\ r.pc = "selectEnrollment"
        /\ IF Enrollment(r.user.id, r.loc.classToJoin) # {}
             THEN Set(s, Respond(Read(r, "selectEnrollment"), 409))
             ELSE Set(s, Read(r, "insert"))
        /\ UNCHANGED <<store, issued, now>>
     \/ /\ r.pc = "insert"
        /\ UserClasses' = UserClasses \cup
             {[id |-> NextId(UserClasses), user_id |-> r.user.id,
               class_id |-> r.loc.classToJoin, role_dans_classe |-> "Etudiant"]}
        /\ Set(s, Respond(Write(r), 200))
        /\ UNCHANGED <<Users, Classes, contentTables, Submissions,
                       projectTables, Messages, issued, now>>

\* -------------------------------------------------------------- submissions
\* The integer an integer column takes from a string parameter.
SqlInt(param) == CHOOSE n \in 0..99 : SqlEq(n, param)

TaskByIdAny(taskId) == Tasks
\* SELECT class_id FROM Tasks WHERE id = ?
TaskById(taskId) == {t \in Tasks : SqlEq(t.id, taskId)}

\* SELECT id FROM Submissions WHERE task_id = ? AND student_id = ?
ExistingSubmissionNone(taskId, student_id) == {}
ExistingSubmission(taskId, student_id) ==
  {x \in Submissions : SqlEq(x.task_id, taskId) /\ x.student_id = student_id}

\* INSERT INTO Submissions (task_id, student_id, file_path, content)
\* VALUES (?, ?, ?, ?): grade and correction_feedback default to NULL,
\* submitted_at to CURRENT_TIMESTAMP.
InsertSubmissionUnlessPresent(r) ==
  IF ExistingSubmission(r.arg.taskId, r.user.id) # {} THEN Submissions
  ELSE Submissions \cup
    {[id |-> NextId(Submissions), task_id |-> SqlInt(r.arg.taskId),
      student_id |-> r.user.id, file_path |-> r.arg.file_path,
      content |-> r.arg.content, submitted_at |-> now,
      grade |-> NULL, correction_feedback |-> NULL]}
InsertSubmission(r) ==
  Submissions \cup
    {[id |-> NextId(Submissions), task_id |-> SqlInt(r.arg.taskId),
      student_id |-> r.user.id, file_path |-> r.arg.file_path,
      content |-> r.arg.content, submitted_at |-> now,
      grade |-> NULL, correction_feedback |-> NULL]}

\* UPDATE Submissions SET file_path = ?, content = ?,
\* submitted_at = CURRENT_TIMESTAMP WHERE id = ?
UpdateSubmissionClearingGrade(r) ==
  {IF x.id = r.loc.existing
     THEN [x EXCEPT !.file_path = r.arg.file_path, !.content = r.arg.content,
                    !.submitted_at = now, !.grade = NULL,
                    !.correction_feedback = NULL]
     ELSE x : x \in Submissions}
UpdateSubmission(r) ==
  {IF x.id = r.loc.existing
     THEN [x EXCEPT !.file_path = r.arg.file_path, !.content = r.arg.content,
                    !.submitted_at = now]
     ELSE x : x \in Submissions}

\* POST /api/tasks/:taskId/submit
SubmitTask(s) ==
  LET r == reqs[s] IN
  /\ r.route = "POST /api/tasks/:taskId/submit"
  /\ \/ /\ r.pc = "handler"
        /\ IF r.arg.file_path = "" /\ r.arg.content = ""
             THEN Set(s, Respond(r, 400))
             ELSE Set(s, Connect(r, "selectTask"))
        /\ UNCHANGED <<store, issued, now>>
     \/ /\ r.pc = "selectTask"
        /\ IF TaskById(r.arg.taskId) = {}
             THEN Set(s, Respond(Read(r, "selectTask"), 404))
             ELSE \E t \in TaskById(r.arg.taskId) :
                    Set(s, [Read(r, "selectEnrollment") EXCEPT
                              !.loc = [class_id |-> t.class_id, existing |-> 0]])
        /\ UNCHANGED <<store, issued, now>>
     \/ /\ r.pc = "selectEnrollment"
        /\ IF Enrollment(r.user.id, r.loc.class_id) = {}
             THEN Set(s, Respond(Read(r, "selectEnrollment"), 403))
             ELSE Set(s, Read(r, "selectSubmission"))
        /\ UNCHANGED <<store, issued, now>>
     \/ /\ r.pc = "selectSubmission"
        /\ LET found == ExistingSubmission(r.arg.taskId, r.user.id) IN
           IF found = {} THEN Set(s, Read(r, "upsert"))
           ELSE \E x \in found :
                  Set(s, [Read(r, "upsert") EXCEPT !.loc.existing = x.id])
        /\ UNCHANGED <<store, issued, now>>
     \/ /\ r.pc = "upsert"
        /\ IF r.loc.existing # 0
             THEN /\ Submissions' = UpdateSubmission(r)
                  /\ Set(s, Respond(Write(r), 200))
             ELSE /\ Submissions' = InsertSubmission(r)
                  /\ Set(s, Respond(Write(r), 201))
        /\ UNCHANGED <<Users, Classes, UserClasses, contentTables,
                       projectTables, Messages, issued, now>>

\* Ids of the rows of
\* SELECT ... FROM Submissions S JOIN Users U ON S.student_id = U.id
\* WHERE S.task_id = ?
SubmissionsOfAnyTask(taskId) == {x.id : x \in Submissions}
SubmissionsOfTask(taskId) ==
  {x.id : x \in {y \in Submissions : /\ SqlEq(y.task_id, taskId)
                                      /\ \E u \in Users : u.id = y.student_id}}

\* GET /api/tasks/:taskId/submissions
GetSubmissionsOfTask(s) ==
  LET r == reqs[s] IN
  /\ r.route = "GET /api/tasks/:taskId/submissions"
  /\ \/ /\ r.pc = "handler"
        /\ Set(s, Connect(r, "selectTask"))
     \/ /\ r.pc = "selectTask"
        /\ IF \E t \in TaskById(r.arg.taskId) : t.professeur_id = r.user.id
             THEN Set(s, Read(r, "selectRows"))
             ELSE Set(s, Respond(Read(r, "selectTask"), 403))
     \/ /\ r.pc = "selectRows"
        /\ Set(s, RespondWith(Read(r, "selectRows"), 200,
                              SubmissionsOfTask(r.arg.taskId)))
  /\ UNCHANGED <<store, issued, now>>

\* SELECT T.professeur_id FROM Submissions S JOIN Tasks T ON S.task_id = T.id
\* WHERE S.id = ?
TaskOwnersOfSubmission(submissionId) ==
  {t.professeur_id : t \in {u \in Tasks :
      \E x \in Submissions : SqlEq(x.id, submissionId) /\ x.task_id = u.id}}

\* if (submissionInfo.length === 0 ||
\*     submissionInfo[0].professeur_id !== professeur_id)  -> 403
MayGradeAnySubmission(r) == TRUE
MayGrade(r) ==
  LET owners == TaskOwnersOfSubmission(r.arg.submissionId) IN
  owners # {} /\ owners = {r.user.id}

\* PUT /api/submissions/:submissionId/grade
GradeSubmission(s) ==
  LET r == reqs[s] IN
  /\ r.route = "PUT /api/submissions/:submissionId/grade"
  /\ \/ /\ r.pc = "handler"
        /\ IF r.arg.grade = "undefined" \/ r.arg.feedback = "undefined"
             THEN Set(s, Respond(r, 400))
             ELSE Set(s, Connect(r, "selectSubmission"))
        /\ UNCHANGED <<store, issued, now>>
     \/ /\ r.pc = "selectSubmission"
        /\ IF MayGrade(r) THEN Set(s, Read(r, "update"))
           ELSE Set(s, Respond(Read(r, "selectSubmission"), 403))
        /\ UNCHANGED <<store, issued, now>>
     \/ /\ r.pc = "update"
        /\ Submissions' =
             {IF SqlEq(x.id, r.arg.submissionId)
                THEN [x EXCEPT !.grade = r.arg.grade,
                               !.correction_feedback = r.arg.feedback]
                ELSE x : x \in Submissions}
        /\ Set(s, Respond(Write(r), 200))
        /\ UNCHANGED <<Users, Classes, UserClasses, contentTables,
                       projectTables, Messages, issued, now>>

\* SELECT S.*, T.professeur_id, ... FROM Submissions S
\* JOIN Tasks T ON S.task_id = T.id JOIN Users U ON S.student_id = U.id
\* WHERE S.id = ?           (rows [id, student_id, professeur_id])
SubmissionById(submissionId) ==
  {[id |-> p[1].id, student_id |-> p[1].student_id,
    professeur_id |-> p[2].professeur_id] :
     p \in {q \in Submissions \X Tasks :
              /\ SqlEq(q[1].id, submissionId)
              /\ q[1].task_id = q[2].id
              /\ \E u \in Users : u.id = q[1].student_id}}

\* The two role tests of GET /api/submissions/:submissionId.
MayViewUnlessOtherStudent(user, sub) ==
  ~(user.role = "Etudiant" /\ sub.student_id # user.id)
MayView(user, sub) ==
  /\ ~(user.role = "Etudiant" /\ sub.student_id # user.id)
  /\ ~(user.role = "Professeur" /\ sub.professeur_id # user.id)

\* GET /api/submissions/:submissionId
GetSubmission(s) ==
  LET r == reqs[s] IN
  /\ r.route = "GET /api/submissions/:submissionId"
  /\ \/ /\ r.pc = "handler"
        /\ Set(s, Connect(r, "selectSubmission"))
     \/ /\ r.pc = "selectSubmission"
        /\ LET found == SubmissionById(r.arg.submissionId) IN
           IF found = {} THEN Set(s, Respond(Read(r, "selectSubmission"), 404))
           ELSE \E sub \in found :
                  IF MayView(r.user, sub)
                    THEN Set(s, RespondWith(Read(r, "selectSubmission"), 200,
                                            {sub.id}))
                    ELSE Set(s, Respond(Read(r, "selectSubmission"), 403))
  /\ UNCHANGED <<store, issued, now>>

\* GET /api/users/me/submissions:
\* ... FROM Submissions S JOIN Tasks T ON S.task_id = T.id
\* JOIN Classes C ON T.class_id = C.id WHERE S.student_id = ?
GetMySubmissions(s) ==
  LET r == reqs[s] IN
  /\ r.route = "GET /api/users/me/submissions"
  /\ \/ /\ r.pc = "handler"
        /\ Set(s, Connect(r, "selectRows"))
     \/ /\ r.pc = "selectRows"
        /\ Set(s, RespondWith(Read(r, "selectRows"), 200,
             {x.id : x \in {y \in Submissions :
                /\ y.student_id = r.user.id
                /\ \E t \in Tasks : /\ t.id = y.task_id
                                    /\ \E c \in Classes : c.id = t.class_id}}))
  /\ UNCHANGED <<store, issued, now>>

\* ---------------------------------------------------- class content: setup
\* The store after: user 1 registers as Etudiant, user 2 as Professeur,
\* user 3 as Etudiant, user 4 as Coordinateur, user 5 as Etudiant; 4 makes 1
\* a Professeur and 1 logs in again (both tokens of user 1 are less than 1 h
\* old); 1 creates class 1, 2 creates class 2, 3 and 5 join class 1.
ClassroomUsers ==
  {[id |-> 1, role |-> "Professeur"], [id |-> 2, role |-> "Professeur"],
   [id |-> 3, role |-> "Etudiant"], [id |-> 4, role |-> "Coordinateur"],
   [id |-> 5, role |-> "Etudiant"]}
ClassroomTokens ==
  {JwtSign(1, "Etudiant"), JwtSign(1, "Professeur"), JwtSign(2, "Professeur"),
   JwtSign(3, "Etudiant"), JwtSign(4, "Coordinateur"), JwtSign(5, "Etudiant")}
ClassroomClasses ==
  {[id |-> 1, code |-> "AAAAAA", professeur_id |-> 1],
   [id |-> 2, code |-> "BBBBBB", professeur_id |-> 2]}
ClassroomMembers ==
  {[id |-> 1, user_id |-> 1, class_id |-> 1, role_dans_classe |-> "Professeur"],
   [id |-> 2, user_id |-> 2, class_id |-> 2, role_dans_classe |-> "Professeur"],
   [id |-> 3, user_id |-> 3, class_id |-> 1, role_dans_classe |-> "Etudiant"],
   [id |-> 4, user_id |-> 5, class_id |-> 1, role_dans_classe |-> "Etudiant"]}

\* The same rows when the INSERT INTO UserClasses that follows the INSERT INTO
\* Classes in POST /api/classes did not go through for class 1: the class
\* exists, its owner has no membership row.
ClassroomMembersLessOwner ==
  {m \in ClassroomMembers : ~(m.class_id = 1 /\ m.user_id = 1)}

NoRequests == [s \in Slots |-> Idle]

InitContent ==
  /\ Users = ClassroomUsers
  /\ issued = ClassroomTokens
  /\ Classes = ClassroomClasses
  /\ UserClasses \in {ClassroomMembers, ClassroomMembersLessOwner}
  /\ Announcements = {} /\ Documentations = {} /\ Tasks = {}
  /\ Submissions = {}
  /\ ClassMembers = {} /\ Projets = {} /\ Groupes = {}
  /\ MembresGroupe = {} /\ GroupMembersTable = {} /\ Messages = {}
  /\ reqs = NoRequests
  /\ now = 0

\* Request inputs: ids of rows, one id no row has, and 0 for a missing field.
ClassIds     == {c.id : c \in Classes}
NoSuchClass  == NextId(Classes)
ClassIdBody  == {0, NoSuchClass} \cup ClassIds
ClassIdParam == {Str(c) : c \in ClassIds \cup {NoSuchClass}}
TextField    == {"", "x"}
CodeField    == {"", "ZZZZZZ"} \cup {c.code : c \in Classes}

\* A membership row is deleted from the store (no handler of server.js
\* deletes from UserClasses: the row is removed by hand or by a cascade).
RemoveMembership ==
  /\ now < MaxRequests
  /\ \A s \in Slots : reqs[s].pc = "idle"
  /\ \E m \in UserClasses : UserClasses' = UserClasses \ {m}
  /\ now' = now + 1
  /\ UNCHANGED <<Users, Classes, contentTables, Submissions, projectTables,
                 Messages, issued, reqs>>

StartContent ==
  /\ CanStart
  /\ \E tok \in Callers :
    \/ \E c \in ClassIdBody, t \in TextField, x \in TextField :
         \/ Start("POST /api/announcements", tok,
                  [class_id |-> c, titre |-> t, contenu |-> x])
         \/ Start("POST /api/tasks", tok,
                  [class_id |-> c, titre |-> t, date_limite |-> x])
    \/ \E c \in ClassIdBody, t \in TextField :
         Start("POST /api/documentations", tok, [class_id |-> c, titre |-> t])
    \/ \E c \in ClassIdParam :
         \/ Start("GET /api/announcements/:classId", tok, [classId |-> c])
         \/ Start("GET /api/documentations/:classId", tok, [classId |-> c])
         \/ Start("GET /api/tasks/class/:classId", tok, [classId |-> c])
    \/ \E code \in CodeField :
         Start("POST /api/classes/join", tok, [code |-> code])

NextContent ==
  \/ StartContent
  \/ RemoveMembership
  \/ \E s \in Slots :
       \/ Auth(s) \/ AuthorizeRole(s) \/ Finish(s)
       \/ PostAnnouncements(s) \/ PostDocumentations(s) \/ PostTasks(s)
       \/ GetAnnouncements(s) \/ GetDocumentations(s) \/ GetTasksOfClass(s)
       \/ JoinClass(s)

SpecContent == InitContent /\ [][NextContent]_vars

\* ------------------------------------------------------ submissions: setup
\* The classroom above after user 1 has posted task 1 on class 1 and user 2
\* task 2 on class 2.
ClassroomTasks ==
  {[id |-> 1, class_id |-> 1, professeur_id |-> 1],
   [id |-> 2, class_id |-> 2, professeur_id |-> 2]}

InitSubmit ==
  /\ Users = ClassroomUsers
  /\ issued = ClassroomTokens
  /\ Classes = ClassroomClasses
  /\ UserClasses = ClassroomMembers
  /\ Announcements = {} /\ Documentations = {}
  /\ Tasks = ClassroomTasks
  /\ Submissions = {}
  /\ ClassMembers = {} /\ Projets = {} /\ Groupes = {}
  /\ MembresGroupe = {} /\ GroupMembersTable = {} /\ Messages = {}
  /\ reqs = NoRequests
  /\ now = 0

TaskIdParam       == {Str(t.id) : t \in Tasks} \cup {Str(NextId(Tasks))}
SubmissionIdParam == {Str(x.id) : x \in Submissions}
                       \cup {Str(NextId(Submissions))}
FileField    == {"", "f"}
ContentField == {"", "a", "b"}
\* A submit body: a file, a text, or neither.
SubmitBody   == {b \in FileField \X ContentField : b[1] = "" \/ b[2] = ""}
GradeField   == {"undefined", "A", "B"}
FeedbackField == {"undefined", "ok"}

StartSubmit ==
  /\ CanStart
  /\ \E tok \in Callers :
       \/ \E t \in TaskIdParam, b \in SubmitBody :
            Start("POST /api/tasks/:taskId/submit", tok,
                  [taskId |-> t, file_path |-> b[1], content |-> b[2]])
       \/ \E t \in TaskIdParam :
            Start("GET /api/tasks/:taskId/submissions", tok, [taskId |-> t])
       \/ \E x \in SubmissionIdParam, g \in GradeField, f \in FeedbackField :
            Start("PUT /api/submissions/:submissionId/grade", tok,
                  [submissionId |-> x, grade |-> g, feedback |-> f])
       \/ \E x \in SubmissionIdParam :
            Start("GET /api/submissions/:submissionId", tok,
                  [submissionId |-> x])
       \/ Start("GET /api/users/me/submissions", tok, <<>>)

NextSubmit ==
  \/ StartSubmit
  \/ \E s \in Slots :
       \/ Auth(s) \/ AuthorizeRole(s) \/ Finish(s)
       \/ SubmitTask(s) \/ GetSubmissionsOfTask(s) \/ GradeSubmission(s)
       \/ GetSubmission(s) \/ GetMySubmissions(s)

SpecSubmit == InitSubmit /\ [][NextSubmit]_vars

\* Submit requests of students that may overlap, each statement a step.
StartSubmitRace ==
  /\ CanStartConcurrent
  /\ \E tok \in {t \in ValidTokens : t.role = "Etudiant" /\ t.id # 1},
        c \in ContentField \ {""} :
       StartConcurrent("POST /api/tasks/:taskId/submit", tok,
                       [taskId |-> Str(1), file_path |-> "", content |-> c])

NextSubmitRace ==
  \/ StartSubmitRace
  \/ \E s \in Slots :
       \/ Auth(s) \/ AuthorizeRole(s) \/ Finish(s) \/ SubmitTask(s)

SpecSubmitRace == InitSubmit /\ [][NextSubmitRace]_vars

\* ---------------------------------------------------- class content: claims
Done(r) == r.pc = "done"
ValidAs(r, role) == r.tok.kind = "valid" /\ r.tok.role = role
OwnerOfClass(cid) == {c.professeur_id : c \in {x \in Classes : x.id = cid}}

CreateRoutes ==
  {"POST /api/announcements", "POST /api/documentations", "POST /api/tasks"}
FetchRoutes ==
  {"GET /api/announcements/:classId", "GET /api/documentations/:classId",
   "GET /api/tasks/class/:classId"}
FieldsPresent(r) ==
  /\ r.arg.class_id # 0 /\ r.arg.titre # ""
  /\ r.route = "POST /api/announcements" => r.arg.contenu # ""
  /\ r.route = "POST /api/tasks" => r.arg.date_limite # ""

\* C4: an announcement, documentation item or task is created on class C
\* only by a Teacher whose id is C.professeur_id; a Teacher who does not own
\* C is answered 403 and inserts nothing; so every Announcement,
\* Documentation and Task row carries the owner of its class.
C4_OnlyOwnerCreates ==
  /\ \A x \in Announcements \cup Documentations \cup Tasks :
       x.professeur_id \in OwnerOfClass(x.class_id)
  /\ \A s \in Slots :
       LET r == reqs[s] IN
       (Done(r) /\ r.route \in CreateRoutes) =>
         /\ r.status = 201 =>
              /\ ValidAs(r, "Professeur")
              /\ r.tok.id \in OwnerOfClass(r.arg.class_id)
              /\ r.writes = 1
         /\ (/\ ValidAs(r, "Professeur") /\ FieldsPresent(r)
             /\ r.tok.id \notin OwnerOfClass(r.arg.class_id)) =>
              r.status = 403 /\ r.writes = 0

\* C4 witness: with a row already created by its class's owner, another
\* Teacher's well-formed request on an existing class of someone else was
\* answered 403.
C4_Witness ==
  /\ Announcements \cup Documentations \cup Tasks # {}
  /\ \E s \in Slots :
       LET r == reqs[s] IN
       /\ Done(r) /\ r.route \in CreateRoutes /\ r.status = 403
       /\ ValidAs(r, "Professeur") /\ FieldsPresent(r)
       /\ OwnerOfClass(r.arg.class_id) # {}
       /\ r.tok.id \notin OwnerOfClass(r.arg.class_id)

HasMembership(uid, classId) ==
  \E m \in UserClasses : m.user_id = uid /\ Str(m.class_id) = classId
IsOwner(uid, classId) ==
  \E c \in Classes : Str(c.id) = classId /\ c.professeur_id = uid

\* C5 as claimed: a caller whose role is Student receives the announcements,
\* tasks or documentation of class C only if a membership row (caller, C)
\* exists; without that row the fetch is answered 403.
C5_Original ==
  \A s \in Slots :
    LET r == reqs[s] IN
    (Done(r) /\ r.route \in FetchRoutes /\ ValidAs(r, "Etudiant")) =>
      /\ r.status = 200 => HasMembership(r.tok.id, r.arg.classId)
      /\ ~HasMembership(r.tok.id, r.arg.classId) => r.status = 403

\* C5 amended: a caller whose role is Student receives the announcements,
\* tasks or documentation of class C only if a membership row (caller, C)
\* exists or the caller's id is C.professeur_id; a caller with neither (for
\* one, a caller whose membership row was removed and who does not own C) is
\* answered 403 and receives no row.
C5_MemberOrOwnerFetches ==
  \A s \in Slots :
    LET r == reqs[s] IN
    (Done(r) /\ r.route \in FetchRoutes /\ ValidAs(r, "Etudiant")) =>
      IF \/ HasMembership(r.tok.id, r.arg.classId)
         \/ IsOwner(r.tok.id, r.arg.classId)
        THEN r.status = 200
        ELSE r.status = 403 /\ r.body = {}

\* C5 witness: student 3, enrolled in class 1 at the start, has lost the
\* membership row and the fetch that followed was answered 403.
C5_Witness ==
  /\ ~HasMembership(3, Str(1))
  /\ \E s \in Slots :
       LET r == reqs[s] IN
       /\ Done(r) /\ r.route \in FetchRoutes /\ ValidAs(r, "Etudiant")
       /\ r.tok.id = 3 /\ r.arg.classId = Str(1) /\ r.status = 403

\* ------------------------------------------------------ submissions: claims
OwnerOfTask(tid) == {t.professeur_id : t \in {u \in Tasks : u.id = tid}}
SubmissionNamed(param) == {x \in Submissions : Str(x.id) = param}
RowsOf(tid, sid) == {x \in Submissions : x.task_id = tid /\ x.student_id = sid}

\* C6: an existing submission fetched by id is returned (200) to the Student
\* who submitted it and to the Teacher who owns its task, and refused (403)
\* to every other Student and every other Teacher.
C6_SelfOrOwnerSees ==
  \A s \in Slots :
    LET r == reqs[s] IN
    (Done(r) /\ r.route = "GET /api/submissions/:submissionId") =>
      \A x \in SubmissionNamed(r.arg.submissionId) :
        /\ ValidAs(r, "Etudiant") =>
             IF r.tok.id = x.student_id
               THEN r.status = 200 /\ r.body = {x.id}
               ELSE r.status = 403 /\ r.body = {}
        /\ ValidAs(r, "Professeur") =>
             IF r.tok.id \in OwnerOfTask(x.task_id)
               THEN r.status = 200 /\ r.body = {x.id}
               ELSE r.status = 403 /\ r.body = {}

\* C6 witness: a Teacher who does not own the task of an existing submission
\* asked for it and was answered 403.
C6_Witness ==
  \E s \in Slots :
    LET r == reqs[s] IN
    /\ Done(r) /\ r.route = "GET /api/submissions/:submissionId"
    /\ ValidAs(r, "Professeur") /\ r.status = 403
    /\ \E x \in SubmissionNamed(r.arg.submissionId) :
         r.tok.id \notin OwnerOfTask(x.task_id)

GradeRoute == "PUT /api/submissions/:submissionId/grade"

\* C7: grade and feedback of a submission change only in the update of a
\* grade request made by the Teacher who owns the submission's task; a grade
\* request of any other Teacher is answered 403 and writes nothing.
C7_OnlyOwnerGrades ==
  /\ [][\A x \in Submissions : \A y \in Submissions' :
          (/\ x.id = y.id
           /\ \/ x.grade # y.grade
              \/ x.correction_feedback # y.correction_feedback) =>
            \E s \in Slots :
              /\ reqs[s].route = GradeRoute /\ reqs[s].pc = "update"
              /\ ValidAs(reqs[s], "Professeur")
              /\ reqs[s].tok.id \in OwnerOfTask(x.task_id)
              /\ Str(x.id) = reqs[s].arg.submissionId
              /\ Done(reqs'[s]) /\ reqs'[s].status = 200]_vars
  /\ [](\A s \in Slots :
          LET r == reqs[s] IN
          (/\ Done(r) /\ r.route = GradeRoute /\ ValidAs(r, "Professeur")
           /\ r.arg.grade # "undefined" /\ r.arg.feedback # "undefined"
           /\ \A x \in SubmissionNamed(r.arg.submissionId) :
                r.tok.id \notin OwnerOfTask(x.task_id)) =>
            r.status = 403 /\ r.writes = 0)

\* C7 witness: a submission graded by its task's owner, and the grade request
\* of another Teacher for it answered 403.
C7_Witness ==
  \E s \in Slots :
    LET r == reqs[s] IN
    /\ Done(r) /\ r.route = GradeRoute /\ ValidAs(r, "Professeur")
    /\ r.status = 403
    /\ \E x \in SubmissionNamed(r.arg.submissionId) :
         /\ x.grade # NULL
         /\ r.tok.id \notin OwnerOfTask(x.task_id)

SubmitRoute == "POST /api/tasks/:taskId/submit"

\* C8: with submit requests handled one after the other, the store holds at
\* most one Submission row per (task, student): the write of an accepted
\* submit inserts one row when the pair has none (201) and otherwise
\* overwrites file_path, content and submitted_at of the pair's row (200).
C8_SubmitUpserts ==
  /\ [](\A x, y \in Submissions :
          (x.task_id = y.task_id /\ x.student_id = y.student_id) => x = y)
  /\ [][\A s \in Slots :
          LET r == reqs[s]
              old == RowsOf(SqlInt(r.arg.taskId), r.tok.id)
          IN (r.route = SubmitRoute /\ r.pc = "upsert" /\ Done(reqs'[s])) =>
               IF old = {}
                 THEN /\ reqs'[s].status = 201
                      /\ \E n \in Submissions' \ Submissions :
                           /\ Submissions' = Submissions \cup {n}
                           /\ n.task_id = SqlInt(r.arg.taskId)
                           /\ n.student_id = r.tok.id
                           /\ n.content = r.arg.content
                 ELSE /\ reqs'[s].status = 200
                      /\ \E x \in old :
                           Submissions' = (Submissions \ {x}) \cup
                             {[x EXCEPT !.file_path = r.arg.file_path,
                                        !.content = r.arg.content,
                                        !.submitted_at = now]}]_vars

\* C8 witness: a second submit of the same student for the same task has
\* overwritten the content of the one row.
C8_Witness ==
  \E s \in Slots :
    LET r == reqs[s] IN
    /\ Done(r) /\ r.route = SubmitRoute /\ r.status = 200
    /\ \E x \in Submissions :
         /\ RowsOf(SqlInt(r.arg.taskId), r.tok.id) = {x}
         /\ x.content = r.arg.content /\ x.submitted_at = now
         /\ x.submitted_at > 1

\* C9: two overlapping submit requests of one student for one task that both
\* found no existing submission both insert: whenever two such requests have
\* both been answered 201, the store holds two rows for the pair.
C9_RaceInsertsTwice ==
  \A s, t \in Slots :
    (/\ s # t /\ Done(reqs[s]) /\ Done(reqs[t])
     /\ reqs[s].route = SubmitRoute /\ reqs[t].route = SubmitRoute
     /\ reqs[s].status = 201 /\ reqs[t].status = 201
     /\ reqs[s].tok.id = reqs[t].tok.id
     /\ reqs[s].arg.taskId = reqs[t].arg.taskId) =>
      Cardinality(RowsOf(SqlInt(reqs[s].arg.taskId), reqs[s].tok.id)) >= 2

\* C9 witness: two Submission rows of one (task, student).
C9_Witness ==
  \E x, y \in Submissions :
    x # y /\ x.task_id = y.task_id /\ x.student_id = y.student_id

\* -------------------------------------------------------------------- users
\* ... FROM Users WHERE id = ?  with the id a route parameter.
UsersById(userId) == {u \in Users : SqlEq(u.id, userId)}

\* The self-protection test of the two handlers below:
\* parseInt(userId) === requestingUserId
IsSelf(r) == StrictEq(ParseInt(r.arg.userId), r.user.id)

\* GET /api/users/all
GetAllUsers(s) ==
  LET r == reqs[s] IN
  /\ r.route = "GET /api/users/all"
  /\ \/ /\ r.pc = "handler"
        /\ Set(s, Connect(r, "selectUsers"))
     \/ /\ r.pc = "selectUsers"
        /\ Set(s, RespondWith(Read(r, "selectUsers"), 200,
                              {u.id : u \in Users}))
  /\ UNCHANGED <<store, issued, now>>

\* PUT /api/users/:userId/role. affectedRows counts the rows the WHERE
\* matched (mysql2 connects with FOUND_ROWS).
PutUserRole(s) ==
  LET r == reqs[s] IN
  /\ r.route = "PUT /api/users/:userId/role"
  /\ \/ /\ r.pc = "handler"
        /\ IF r.arg.role = "" \/ r.arg.role \notin Roles
             THEN Set(s, Respond(r, 400))
           ELSE IF IsSelf(r) /\ r.arg.role # "Coordinateur"
             THEN Set(s, Respond(r, 403))
           ELSE Set(s, Connect(r, "update"))
        /\ UNCHANGED <<store, issued, now>>
     \/ /\ r.pc = "update"
        /\ LET rows == UsersById(r.arg.userId) IN
           /\ Users' = (Users \ rows) \cup
                         {[u EXCEPT !.role = r.arg.role] : u \in rows}
           /\ Set(s, Respond(Write(r), IF rows = {} THEN 404 ELSE 200))
        /\ UNCHANGED <<classTables, contentTables, Submissions, projectTables,
                       Messages, issued, now>>

\* DELETE /api/users/:userId
DeleteUser(s) ==
  LET r == reqs[s] IN
  /\ r.route = "DELETE /api/users/:userId"
  /\ \/ /\ r.pc = "handler"
        /\ IF IsSelf(r) THEN Set(s, Respond(r, 403))
           ELSE Set(s, Connect(r, "selectRole"))
        /\ UNCHANGED <<store, issued, now>>
     \/ /\ r.pc = "selectRole"
        /\ IF \E u \in UsersById(r.arg.userId) : u.role = "Coordinateur"
             THEN Set(s, Read(r, "countCoordinators"))
             ELSE Set(s, Read(r, "delete"))
        /\ UNCHANGED <<store, issued, now>>
     \/ /\ r.pc = "countCoordinators"
        /\ IF Cardinality({u \in Users : u.role = "Coordinateur"}) = 1
             THEN Set(s, Respond(Read(r, "countCoordinators"), 403))
             ELSE Set(s, Read(r, "delete"))
        /\ UNCHANGED <<store, issued, now>>
     \/ /\ r.pc = "delete"
        /\ LET rows == UsersById(r.arg.userId) IN
           /\ Users' = Users \ rows
           /\ Set(s, Respond(Write(r), IF rows = {} THEN 404 ELSE 200))
        /\ UNCHANGED <<classTables, contentTables, Submissions, projectTables,
                       Messages, issued, now>>

\* ------------------------------------------------------------- users: setup
\* Four registered accounts, two of them Coordinators, each logged in; no
\* class has been created yet.
StaffUsers ==
  {[id |-> 1, role |-> "Professeur"], [id |-> 2, role |-> "Etudiant"],
   [id |-> 3, role |-> "Coordinateur"], [id |-> 4, role |-> "Coordinateur"]}
StaffTokens == {JwtSign(u.id, u.role) : u \in StaffUsers}

InitUsers ==
  /\ Users = StaffUsers
  /\ issued = StaffTokens
  /\ Classes = {} /\ UserClasses = {}
  /\ Announcements = {} /\ Documentations = {} /\ Tasks = {}
  /\ Submissions = {}
  /\ ClassMembers = {} /\ Projets = {} /\ Groupes = {}
  /\ MembresGroupe = {} /\ GroupMembersTable = {} /\ Messages = {}
  /\ reqs = NoRequests
  /\ now = 0

\* The :userId of a request: the decimal id of an account, an id no account
\* has, or the same number written as a decimal fraction with an exponent.
NoSuchUser  == NextId(StaffUsers)
Decimal(n)  == Str(n)
Scientific(n) == <<".">> \o Str(n) \o <<"e", "1">>
UserIdParam ==
  {Decimal(n) : n \in {u.id : u \in StaffUsers} \cup {NoSuchUser}}
    \cup {Scientific(u.id) : u \in StaffUsers}
RoleField == {"", "Admin"} \cup Roles

StartUsers ==
  /\ CanStart
  /\ \E tok \in Callers :
       \/ Start("GET /api/users/all", tok, <<>>)
       \/ \E u \in UserIdParam, role \in RoleField :
            Start("PUT /api/users/:userId/role", tok,
                  [userId |-> u, role |-> role])
       \/ \E u \in UserIdParam :
            Start("DELETE /api/users/:userId", tok, [userId |-> u])

NextUsers ==
  \/ StartUsers
  \/ \E s \in Slots :
       \/ Auth(s) \/ AuthorizeRole(s) \/ Finish(s)
       \/ GetAllUsers(s) \/ PutUserRole(s) \/ DeleteUser(s)

SpecUsers == InitUsers /\ [][NextUsers]_vars

C10_SelfProtected ==
  \A s \in Slots :
    LET r == reqs[s] IN
    (/\ Done(r) /\ ValidAs(r, "Coordinateur")
     /\ \/ r.route = "DELETE /api/users/:userId"
        \/ /\ r.route = "PUT /api/users/:userId/role"
           /\ r.arg.role \in Roles \ {"Coordinateur"}
     /\ SqlEq(r.tok.id, r.arg.userId)) =>
      r.status = 403 /\ r.writes = 0

\* ----------------------------------------------------- the gates: setup
\* Every route of server.js mounted behind `auth`.
ProtectedRoutes ==
  {"POST /api/classes", "GET /api/classes/professeur", "GET /api/classes/me",
   "POST /api/classes/join", "POST /api/announcements",
   "GET /api/announcements/:classId", "POST /api/documentations",
   "GET /api/documentations/:classId", "POST /api/tasks",
   "GET /api/tasks/class/:classId", "POST /api/tasks/:taskId/submit",
   "GET /api/tasks/:taskId/submissions",
   "PUT /api/submissions/:submissionId/grade",
   "GET /api/submissions/:submissionId", "GET /api/users/me/submissions",
   "POST /api/messages", "GET /api/messages/public/class/:classId",
   "GET /api/messages/private/me", "GET /api/users/all",
   "POST /api/projects", "GET /api/projects/class/:classId",
   "POST /api/groups", "GET /api/groups/project/:projectId",
   "POST /api/groups/:groupId/members",
   "DELETE /api/groups/:groupId/members/:userId",
   "GET /api/classes/:classId/students", "PUT /api/users/:userId/role",
   "DELETE /api/users/:userId"}

\* The routes whose handlers this module steps through.
HandledRoutes ==
  {"POST /api/classes/join", "POST /api/announcements",
   "GET /api/announcements/:classId", "POST /api/documentations",
   "GET /api/documentations/:classId", "POST /api/tasks",
   "GET /api/tasks/class/:classId", "POST /api/tasks/:taskId/submit",
   "GET /api/tasks/:taskId/submissions",
   "PUT /api/submissions/:submissionId/grade",
   "GET /api/submissions/:submissionId", "GET /api/users/me/submissions",
   "GET /api/users/all", "PUT /api/users/:userId/role",
   "DELETE /api/users/:userId"}

\* Tokens signed for the classroom's accounts: the owner of class 1 as the
\* Teacher they are and as the Student they were at an earlier login, its
\* student 3 as a Student and with a Teacher's role, and the Coordinator.
GateTokens ==
  {JwtSign(1, "Professeur"), JwtSign(1, "Etudiant"), JwtSign(3, "Etudiant"),
   JwtSign(3, "Professeur"), JwtSign(4, "Coordinateur")}

InitGate ==
  /\ Users = ClassroomUsers
  /\ issued = GateTokens
  /\ Classes = ClassroomClasses
  /\ UserClasses = ClassroomMembers
  /\ Announcements = {} /\ Documentations = {}
  /\ Tasks = ClassroomTasks
  /\ Submissions = {}
  /\ ClassMembers = {} /\ Projets = {} /\ Groupes = {}
  /\ MembresGroupe = {} /\ GroupMembersTable = {} /\ Messages = {}
  /\ reqs = NoRequests
  /\ now = 0

\* A well-formed request of each route, on class 1 and its task 1.
GateArg(route) ==
  CASE route = "POST /api/classes/join" -> [code |-> "BBBBBB"]
    [] route = "POST /api/announcements" ->
         [class_id |-> 1, titre |-> "x", contenu |-> "x"]
    [] route = "POST /api/documentations" -> [class_id |-> 1, titre |-> "x"]
    [] route = "POST /api/tasks" ->
         [class_id |-> 1, titre |-> "x", date_limite |-> "x"]
    [] route \in FetchRoutes -> [classId |-> Str(1)]
    [] route = "POST /api/tasks/:taskId/submit" ->
         [taskId |-> Str(1), file_path |-> "", content |-> "a"]
    [] route = "GET /api/tasks/:taskId/submissions" -> [taskId |-> Str(1)]
    [] route = "PUT /api/submissions/:submissionId/grade" ->
         [submissionId |-> Str(1), grade |-> "A", feedback |-> "ok"]
    [] route = "GET /api/submissions/:submissionId" ->
         [submissionId |-> Str(1)]
    [] route = "PUT /api/users/:userId/role" ->
         [userId |-> Str(NextId(ClassroomUsers)), role |-> "Etudiant"]
    [] route = "DELETE /api/users/:userId" ->
         [userId |-> Str(NextId(ClassroomUsers))]
    [] OTHER -> <<>>

\* The same request with the fields its handler validates left out.
BlankArg(route) ==
  CASE route = "POST /api/classes/join" -> [code |-> ""]
    [] route = "POST /api/announcements" ->
         [class_id |-> 0, titre |-> "", contenu |-> ""]
    [] route = "POST /api/documentations" -> [class_id |-> 0, titre |-> ""]
    [] route = "POST /api/tasks" ->
         [class_id |-> 0, titre |-> "", date_limite |-> ""]
    [] route = "POST /api/tasks/:taskId/submit" ->
         [taskId |-> Str(1), file_path |-> "", content |-> ""]
    [] route = "PUT /api/submissions/:submissionId/grade" ->
         [submissionId |-> Str(1), grade |-> "undefined",
          feedback |-> "undefined"]
    [] route = "PUT /api/users/:userId/role" ->
         [userId |-> Str(NextId(ClassroomUsers)), role |-> ""]
    [] OTHER -> GateArg(route)

\* Whether the two middlewares let the request through to its handler.
Admitted(route, tok) == tok.kind = "valid" /\ tok.role \in RoleGate(route)

\* Any caller on any protected route; a request the middlewares admit is
\* followed into its handler on the routes this module steps through.
StartGate ==
  /\ CanStart
  /\ \E route \in ProtectedRoutes, tok \in TokenInputs :
       /\ route \in HandledRoutes \/ ~Admitted(route, tok)
       /\ \E arg \in {GateArg(route), BlankArg(route)} :
            Start(route, tok, arg)

NextGate ==
  \/ StartGate
  \/ \E s \in Slots :
       \/ Auth(s) \/ AuthorizeRole(s) \/ Finish(s)
       \/ PostAnnouncements(s) \/ PostDocumentations(s) \/ PostTasks(s)
       \/ GetAnnouncements(s) \/ GetDocumentations(s) \/ GetTasksOfClass(s)
       \/ JoinClass(s)
       \/ SubmitTask(s) \/ GetSubmissionsOfTask(s) \/ GradeSubmission(s)
       \/ GetSubmission(s) \/ GetMySubmissions(s)
       \/ GetAllUsers(s) \/ PutUserRole(s) \/ DeleteUser(s)

SpecGate == InitGate /\ [][NextGate]_vars

\* ---------------------------------------------------- the gates: claims
\* C1: on every protected route, a request without a token, or with a token
\* that is malformed, expired or wrongly signed, never gets past `auth`: it
\* acquires no connection, executes no statement, and is answered 401.
C1_Unauthenticated401 ==
  \A s \in Slots :
    LET r == reqs[s] IN
    (r.pc # "idle" /\ r.tok.kind # "valid") =>
      /\ r.pc \in {"auth", "done"}
      /\ r.conn = "none" /\ r.stmts = 0 /\ r.writes = 0
      /\ r.user = NoUser
      /\ Done(r) => r.status = 401

\* C1 witness: a request carrying another account's identity under a wrong
\* signature, aimed at a write route, was answered 401.
C1_Witness ==
  \E s \in Slots :
    LET r == reqs[s] IN
    /\ Done(r) /\ r.tok.kind = "badsig" /\ r.status = 401
    /\ r.route = "DELETE /api/users/:userId"
    /\ Announcements \cup Documentations \cup Submissions # {}

\* C2: on every route with a role gate, an authenticated request whose token
\* role is outside the route's allow-list goes from `auth` to the gate and
\* from there to the 403 answer, before any validation, connection or
\* statement, whatever the store holds and whatever the caller owns or is
\* enrolled in.
C2_RoleGateFirst ==
  \A s \in Slots :
    LET r == reqs[s] IN
    (/\ r.pc # "idle" /\ r.tok.kind = "valid" /\ HasRoleGate(r.route)
     /\ r.tok.role \notin RoleGate(r.route)) =>
      /\ r.pc \in {"auth", "role", "done"}
      /\ r.conn = "none" /\ r.stmts = 0 /\ r.writes = 0
      /\ Done(r) => r.status = 403

\* C2 witness: with rows already written to the store, a caller holding a
\* token with the Student role posted an announcement with its fields left
\* out and was answered 403, not 400.
C2_Witness ==
  \E s \in Slots :
    LET r == reqs[s] IN
    /\ Done(r) /\ r.route = "POST /api/announcements" /\ r.status = 403
    /\ ValidAs(r, "Etudiant") /\ ~FieldsPresent(r)
    /\ r.tok.id \in OwnerOfClass(1)
    /\ Documentations \cup Submissions # {}

\* ------------------------------------------------- users: overlapping requests
\* Coordinators' delete and role-update requests on Coordinators' accounts
\* that may overlap, each statement a step.
StartUsersRace ==
  /\ CanStartConcurrent
  /\ \E tok \in {t \in ValidTokens : t.role = "Coordinateur"},
        u \in {Decimal(x.id) : x \in {y \in StaffUsers :
                                       y.role = "Coordinateur"}} :
       \/ StartConcurrent("DELETE /api/users/:userId", tok, [userId |-> u])
       \/ \E role \in {"Etudiant", "Coordinateur"} :
            StartConcurrent("PUT /api/users/:userId/role", tok,
                            [userId |-> u, role |-> role])

NextUsersRace ==
  \/ StartUsersRace
  \/ \E s \in Slots :
       \/ Auth(s) \/ AuthorizeRole(s) \/ Finish(s)
       \/ PutUserRole(s) \/ DeleteUser(s)

SpecUsersRace == InitUsers /\ [][NextUsersRace]_vars

Coordinators == {u \in Users : u.role = "Coordinateur"}

\* C11 as claimed: under any interleaving of delete and role-update requests,
\* the user who is the only Coordinator of the store is not deleted.
C11_LastCoordinatorKept ==
  [][\A u \in Users :
       Coordinators = {u} => \E v \in Users' : v.id = u.id]_vars

\* ---------------------------------------------------------------- accounts
\* bcrypt.hash(password, salt); bcrypt.compare(p, h) is h = Hash(p).
Hash(password) == <<"$2a$10$", password>>

\* AUTO_INCREMENT of Users, whose rows can be deleted: an id is never given
\* twice. Every id ever inserted is the id of a row or of the token signed at
\* its registration.
NextUserId ==
  NextId({[id |-> u.id] : u \in Users} \cup {[id |-> t.id] : t \in issued})

\* A client sends a request to a route mounted without `auth`.
StartPublic(route, arg) ==
  /\ CanStart
  /\ Set(1, [NewRequest(route, NoToken, arg) EXCEPT !.pc = "handler"])
  /\ now' = now + 1
  /\ UNCHANGED <<store, issued>>

\* POST /api/auth/register
Register(s) ==
  LET r == reqs[s] IN
  /\ r.route = "POST /api/auth/register"
  /\ \/ /\ r.pc = "handler"
        /\ IF \/ r.arg.nom = "" \/ r.arg.email = ""
              \/ r.arg.password = "" \/ r.arg.role = ""
             THEN Set(s, Respond(r, 400))
             ELSE Set(s, Connect(r, "selectEmail"))
        /\ UNCHANGED <<store, issued, now>>
     \/ /\ r.pc = "selectEmail"
        /\ IF \E u \in Users : u.email = r.arg.email
             THEN Set(s, Respond(Read(r, "selectEmail"), 400))
             ELSE Set(s, Read(r, "insert"))
        /\ UNCHANGED <<store, issued, now>>
     \/ /\ r.pc = "insert"
        /\ Users' = Users \cup
             {[id |-> NextUserId, role |-> r.arg.role, email |-> r.arg.email,
               motDePasse |-> Hash(r.arg.password)]}
        /\ issued' = issued \cup {JwtSign(NextUserId, r.arg.role)}
        /\ Set(s, RespondWith(Write(r), 201, {NextUserId}))
        /\ UNCHANGED <<classTables, contentTables, Submissions, projectTables,
                       Messages, now>>

\* POST /api/auth/login
Login(s) ==
  LET r == reqs[s] IN
  /\ r.route = "POST /api/auth/login"
  /\ \/ /\ r.pc = "handler"
        /\ IF r.arg.email = "" \/ r.arg.motDePasse = ""
             THEN Set(s, Respond(r, 400))
             ELSE Set(s, Connect(r, "selectUser"))
        /\ UNCHANGED <<store, issued, now>>
     \/ /\ r.pc = "selectUser"
        /\ LET users == {u \in Users : u.email = r.arg.email} IN
           IF users = {}
             THEN /\ Set(s, Respond(Read(r, "selectUser"), 401))
                  /\ UNCHANGED issued
             ELSE \E user \in users :
                    IF user.motDePasse = Hash(r.arg.motDePasse)
                      THEN /\ issued' = issued \cup
                                          {JwtSign(user.id, user.role)}
                           /\ Set(s, RespondWith(Read(r, "selectUser"), 200,
                                                 {user.id}))
                      ELSE /\ Set(s, Respond(Read(r, "selectUser"), 401))
                           /\ UNCHANGED issued
        /\ UNCHANGED <<store, now>>

\* Three registered accounts, two of them Coordinators, each holding the
\* token of its registration.
AccountUsers ==
  {[id |-> 1, role |-> "Coordinateur", email |-> "a@x",
    motDePasse |-> Hash("p")],
   [id |-> 2, role |-> "Coordinateur", email |-> "b@x",
    motDePasse |-> Hash("p")],
   [id |-> 3, role |-> "Etudiant", email |-> "c@x",
    motDePasse |-> Hash("p")]}

InitAccounts ==
  /\ Users = AccountUsers
  /\ issued = {JwtSign(u.id, u.role) : u \in AccountUsers}
  /\ Classes = {} /\ UserClasses = {}
  /\ Announcements = {} /\ Documentations = {} /\ Tasks = {}
  /\ Submissions = {}
  /\ ClassMembers = {} /\ Projets = {} /\ Groupes = {}
  /\ MembresGroupe = {} /\ GroupMembersTable = {} /\ Messages = {}
  /\ reqs = NoRequests
  /\ now = 0

\* Bodies of the two public routes: a registered email, a new one, a missing
\* field; a role of the application and a string that is none of them; the
\* right password and a wrong one.
RegisterBody ==
  {[nom |-> "n", email |-> e, password |-> "p", role |-> role] :
     e \in {"", "a@x", "d@x"},
     role \in {"", "Etudiant", "Coordinateur", "Admin"}}
LoginBody ==
  {[email |-> e, motDePasse |-> p] :
     e \in {"b@x", "d@x"}, p \in {"", "p", "q"}}

StartAccounts ==
  /\ CanStart
  /\ \/ \E b \in RegisterBody : StartPublic("POST /api/auth/register", b)
     \/ \E b \in LoginBody : StartPublic("POST /api/auth/login", b)
     \/ \E tok \in Callers, u \in {Decimal(x.id) : x \in AccountUsers} :
          \/ \E role \in {"Etudiant", "Coordinateur"} :
               Start("PUT /api/users/:userId/role", tok,
                     [userId |-> u, role |-> role])
          \/ Start("DELETE /api/users/:userId", tok, [userId |-> u])

NextAccounts ==
  \/ StartAccounts
  \/ \E s \in Slots :
       \/ Auth(s) \/ AuthorizeRole(s) \/ Finish(s)
       \/ Register(s) \/ Login(s) \/ PutUserRole(s) \/ DeleteUser(s)

SpecAccounts == InitAccounts /\ [][NextAccounts]_vars

RoleUpdateRoute == "PUT /api/users/:userId/role"

\* C12 as claimed: the stored role of an existing user changes only in the
\* update of a role-update request whose requester is, at that moment, a
\* user with the stored role Coordinator.
C12_Original ==
  [][\A u \in Users : \A v \in Users' :
       (u.id = v.id /\ u.role # v.role) =>
         \E s \in Slots :
           /\ reqs[s].route = RoleUpdateRoute /\ reqs[s].pc = "update"
           /\ Done(reqs'[s])
           /\ \E c \in Users :
                c.id = reqs[s].tok.id /\ c.role = "Coordinateur"]_vars

\* C12 amended: the stored role of an existing user changes only in the
\* update of a role-update request that names the user and carries a valid
\* token with the role Coordinator (the requester's role when the token was
\* signed); no step of any other operation changes a stored role.
C12_CoordinatorTokenChangesRole ==
  [][\A u \in Users : \A v \in Users' :
       (u.id = v.id /\ u.role # v.role) =>
         \E s \in Slots :
           /\ reqs[s].route = RoleUpdateRoute /\ reqs[s].pc = "update"
           /\ Done(reqs'[s]) /\ reqs'[s].status = 200
           /\ ValidAs(reqs[s], "Coordinateur")
           /\ SqlEq(u.id, reqs[s].arg.userId)
           /\ v.role = reqs[s].arg.role]_vars

\* C12 witness: a role-update answered 200 has given another user the role
\* it names, while the requester's stored role is no longer Coordinator.
C12_Witness ==
  \E s \in Slots :
    LET r == reqs[s] IN
    /\ Done(r) /\ r.route = RoleUpdateRoute /\ r.status = 200
    /\ ValidAs(r, "Coordinateur")
    /\ \E c \in Users : c.id = r.tok.id /\ c.role = "Etudiant"
    /\ \E v \in Users :
         /\ v.id # r.tok.id /\ SqlEq(v.id, r.arg.userId)
         /\ v.role = r.arg.role
         /\ \E a \in AccountUsers : a.id = v.id /\ a.role # v.role

\* ------------------------------------------------------ the order of checks
\* A grade request with both of its fields, or a request for the submissions
\* of a task, sent with a valid Teacher token; and the resource it names.
PassesTeacherGate(r) ==
  /\ Done(r) /\ ValidAs(r, "Professeur")
  /\ \/ r.route = "GET /api/tasks/:taskId/submissions"
     \/ /\ r.route = GradeRoute
        /\ r.arg.grade # "undefined" /\ r.arg.feedback # "undefined"
NamedResource(r) ==
  IF r.route = GradeRoute THEN SubmissionNamed(r.arg.submissionId)
  ELSE {t \in Tasks : Str(t.id) = r.arg.taskId}

IsClassMemberAlways(cid, uid) == TRUE
IsClassMemberOfAny(cid, uid) == \E m \in ClassMembers : m.user_id = uid
IsClassMember(cid, uid) ==
  \E m \in ClassMembers : m.class_id = cid /\ m.user_id = uid

\* SELECT * FROM Classes WHERE id = ? AND (professeur_id = ? OR
\*   EXISTS (SELECT 1 FROM Users WHERE id = ? AND role = 'Coordinateur'))
IsClassOwner(cid, uid) ==
  \E c \in Classes :
    /\ c.id = cid
    /\ \/ c.professeur_id = uid
       \/ \E u \in Users : u.id = uid /\ u.role = "Coordinateur"

\* POST /api/projects
PostProjects(s) ==
  LET r == reqs[s] IN
  /\ r.route = "POST /api/projects"
  /\ \/ /\ r.pc = "handler"
        /\ Set(s, Connect(r, "selectOwner"))
        /\ UNCHANGED <<store, issued, now>>
     \/ /\ r.pc = "selectOwner"
        /\ IF ~IsClassOwner(r.arg.class_id, r.user.id)
                /\ r.user.role # "Coordinateur"
             THEN Set(s, Respond(Read(r, "selectOwner"), 403))
           ELSE IF r.user.role = "Coordinateur"
             THEN Set(s, Read(r, "selectMember"))
           ELSE Set(s, Read(r, "insert"))
        /\ UNCHANGED <<store, issued, now>>
     \/ /\ r.pc = "selectMember"
        /\ IF IsClassMember(r.arg.class_id, r.user.id)
             THEN Set(s, Read(r, "insert"))
             ELSE Set(s, Respond(Read(r, "selectMember"), 403))
        /\ UNCHANGED <<store, issued, now>>
     \/ /\ r.pc = "insert"
        /\ Projets' = Projets \cup
             {[id |-> NextId(Projets), class_id |-> r.arg.class_id]}
        /\ Set(s, RespondWith(Write(r), 201, {NextId(Projets)}))
        /\ UNCHANGED <<Users, classTables, contentTables, Submissions,
                       ClassMembers, Groupes, MembresGroupe,
                       GroupMembersTable, Messages, issued, now>>

\* SELECT P.class_id, C.professeur_id FROM Projets P
\* JOIN Classes C ON P.class_id = C.id WHERE P.id = ?
ProjectInfo(projet_id) ==
  {[class_id |-> c.id, professeur_id |-> c.professeur_id] :
     c \in {x \in Classes :
              \E p \in Projets : p.id = projet_id /\ p.class_id = x.id}}

\* SELECT G.projet_id, P.class_id, C.professeur_id FROM Groupes G
\* JOIN Projets P ON G.projet_id = P.id JOIN Classes C ON P.class_id = C.id
\* WHERE G.id = ?
GroupInfo(groupId) ==
  UNION {ProjectInfo(g.projet_id) :
           g \in {x \in Groupes : SqlEq(x.id, groupId)}}

\* The permission test the three group handlers share, on the row `info`
\* just selected: 403 unless the caller's id is the class's professeur_id or
\* the token's role is Coordinateur; a Coordinator goes on to the membership
\* SELECT, anyone else to the statement `next`.
GroupPermission(s, r, info, pc, next) ==
  IF info.professeur_id # r.user.id /\ r.user.role # "Coordinateur"
    THEN Set(s, Respond(Read(r, pc), 403))
  ELSE IF r.user.role = "Coordinateur"
    THEN Set(s, [Read(r, "selectMember") EXCEPT
                   !.loc = [class_id |-> info.class_id]])
  ELSE Set(s, [Read(r, next) EXCEPT !.loc = [class_id |-> info.class_id]])

\* POST /api/groups
PostGroups(s) ==
  LET r == reqs[s] IN
  /\ r.route = "POST /api/groups"
  /\ \/ /\ r.pc = "handler"
        /\ Set(s, Connect(r, "selectProject"))
        /\ UNCHANGED <<store, issued, now>>
     \/ /\ r.pc = "selectProject"
        /\ IF ProjectInfo(r.arg.projet_id) = {}
             THEN Set(s, Respond(Read(r, "selectProject"), 404))
             ELSE \E info \in ProjectInfo(r.arg.projet_id) :
                    GroupPermission(s, r, info, "selectProject", "insert")
        /\ UNCHANGED <<store, issued, now>>
     \/ /\ r.pc = "selectMember"
        /\ IF IsClassMember(r.loc.class_id, r.user.id)
             THEN Set(s, Read(r, "insert"))
             ELSE Set(s, Respond(Read(r, "selectMember"), 403))
        /\ UNCHANGED <<store, issued, now>>
     \/ /\ r.pc = "insert"
        /\ Groupes' = Groupes \cup
             {[id |-> NextId(Groupes), projet_id |-> r.arg.projet_id]}
        /\ Set(s, RespondWith(Write(r), 201, {NextId(Groupes)}))
        /\ UNCHANGED <<Users, classTables, contentTables, Submissions,
                       ClassMembers, Projets, MembresGroupe,
                       GroupMembersTable, Messages, issued, now>>

\* SELECT * FROM MembresGroupe WHERE group_id = ? AND user_id = ?
GroupMembersNone(groupId, userId) == {}
GroupMembers(groupId, userId) ==
  {m \in MembresGroupe : SqlEq(m.group_id, groupId) /\ m.user_id = userId}

\* POST /api/groups/:groupId/members
AddGroupMember(s) ==
  LET r == reqs[s] IN
  /\ r.route = "POST /api/groups/:groupId/members"
  /\ \/ /\ r.pc = "handler"
        /\ Set(s, Connect(r, "selectGroup"))
        /\ UNCHANGED <<store, issued, now>>
     \/ /\ r.pc = "selectGroup"
        /\ IF GroupInfo(r.arg.groupId) = {}
             THEN Set(s, Respond(Read(r, "selectGroup"), 404))
             ELSE \E info \in GroupInfo(r.arg.groupId) :
                    GroupPermission(s, r, info, "selectGroup", "selectUser")
        /\ UNCHANGED <<store, issued, now>>
     \/ /\ r.pc = "selectMember"
        /\ IF IsClassMember(r.loc.class_id, r.user.id)
             THEN Set(s, Read(r, "selectUser"))
             ELSE Set(s, Respond(Read(r, "selectMember"), 403))
        /\ UNCHANGED <<store, issued, now>>
     \/ /\ r.pc = "selectUser"
        /\ IF \E u \in Users : u.id = r.arg.user_id_to_add
                                 /\ u.role = "Etudiant"
             THEN Set(s, Read(r, "selectStudentInClass"))
             ELSE Set(s, Respond(Read(r, "selectUser"), 400))
        /\ UNCHANGED <<store, issued, now>>
     \/ /\ r.pc = "selectStudentInClass"
        /\ IF IsClassMember(r.loc.class_id, r.arg.user_id_to_add)
             THEN Set(s, Read(r, "selectExisting"))
             ELSE Set(s, Respond(Read(r, "selectStudentInClass"), 400))
        /\ UNCHANGED <<store, issued, now>>
     \/ /\ r.pc = "selectExisting"
        /\ IF GroupMembers(r.arg.groupId, r.arg.user_id_to_add) # {}
             THEN Set(s, Respond(Read(r, "selectExisting"), 409))
             ELSE Set(s, Read(r, "insert"))
        /\ UNCHANGED <<store, issued, now>>
     \/ /\ r.pc = "insert"
        /\ MembresGroupe' = MembresGroupe \cup
             {[group_id |-> SqlInt(r.arg.groupId),
               user_id |-> r.arg.user_id_to_add]}
        /\ Set(s, Respond(Write(r), 200))
        /\ UNCHANGED <<Users, classTables, contentTables, Submissions,
                       ClassMembers, Projets, Groupes, GroupMembersTable,
                       Messages, issued, now>>

\* DELETE /api/groups/:groupId/members/:userId
RemoveGroupMember(s) ==
  LET r == reqs[s] IN
  /\ r.route = "DELETE /api/groups/:groupId/members/:userId"
  /\ \/ /\ r.pc = "handler"
        /\ Set(s, Connect(r, "selectGroup"))
        /\ UNCHANGED <<store, issued, now>>
     \/ /\ r.pc = "selectGroup"
        /\ IF GroupInfo(r.arg.groupId) = {}
             THEN Set(s, Respond(Read(r, "selectGroup"), 404))
             ELSE \E info \in GroupInfo(r.arg.groupId) :
                    GroupPermission(s, r, info, "selectGroup", "delete")
        /\ UNCHANGED <<store, issued, now>>
     \/ /\ r.pc = "selectMember"
        /\ IF IsClassMember(r.loc.class_id, r.user.id)
             THEN Set(s, Read(r, "delete"))
             ELSE Set(s, Respond(Read(r, "selectMember"), 403))
        /\ UNCHANGED <<store, issued, now>>
     \/ /\ r.pc = "delete"
        /\ LET rows == {m \in MembresGroupe :
                          /\ SqlEq(m.group_id, r.arg.groupId)
                          /\ SqlEq(m.user_id, r.arg.userId)} IN
           /\ MembresGroupe' = MembresGroupe \ rows
           /\ Set(s, Respond(Write(r), IF rows = {} THEN 404 ELSE 200))
        /\ UNCHANGED <<Users, classTables, contentTables, Submissions,
                       ClassMembers, Projets, Groupes, GroupMembersTable,
                       Messages, issued, now>>

\* ----------------------------------------------------------------- messages
\* A value of a JSON body that may be a number (field n), a string (field s)
\* or missing, and `column = ?` with that value bound: a number is compared
\* as it is, a string as MySQL reads it.
SqlMatch(n, x) ==
  /\ x.type # "undefined"
  /\ IF x.type = "number" THEN n = x.n ELSE SqlEq(n, x.s)

\* POST /api/messages. The connection is opened before the body is
\* validated. !receiver_id holds of a missing value, 0 and "";
\* sender_id === receiver_id holds of the number sender_id only.
PostMessages(s) ==
  LET r == reqs[s]
      to == r.arg.receiver_id
  IN
  /\ r.route = "POST /api/messages"
  /\ \/ /\ r.pc = "handler"
        /\ IF \A i \in 1..Len(r.arg.content) : r.arg.content[i] = " "
             THEN Set(s, Respond(Connect(r, "handler"), 400))
           ELSE IF r.arg.message_type \notin {"public", "private"}
             THEN Set(s, Respond(Connect(r, "handler"), 400))
           ELSE IF r.arg.message_type = "private"
             THEN IF \/ to.type = "undefined"
                     \/ to.type = "number" /\ to.n = 0
                     \/ to.type = "string" /\ to.s = <<>>
                    THEN Set(s, Respond(Connect(r, "handler"), 400))
                  ELSE IF to.type = "number" /\ to.n = r.user.id
                    THEN Set(s, Respond(Connect(r, "handler"), 400))
                  ELSE Set(s, Connect(r, "selectReceiver"))
           ELSE IF r.arg.class_id = 0
             THEN Set(s, Respond(Connect(r, "handler"), 400))
           ELSE Set(s, Connect(r, "selectMembership"))
        /\ UNCHANGED <<store, issued, now>>
     \/ /\ r.pc = "selectReceiver"
        /\ IF \E u \in Users : SqlMatch(u.id, to)
             THEN Set(s, Read(r, "insertPrivate"))
             ELSE Set(s, Respond(Read(r, "selectReceiver"), 404))
        /\ UNCHANGED <<store, issued, now>>
     \/ /\ r.pc = "insertPrivate"
        /\ Messages' = Messages \cup
             {[id |-> NextId(Messages), sender_id |-> r.user.id,
               receiver_id |-> IF to.type = "number" THEN to.n
                               ELSE SqlInt(to.s),
               class_id |-> 0, message_type |-> "private"]}
        /\ Set(s, Respond(Write(r), 201))
        /\ UNCHANGED <<Users, classTables, contentTables, Submissions,
                       projectTables, issued, now>>
     \/ /\ r.pc = "selectMembership"
        /\ IF /\ \E c \in Classes : c.id = r.arg.class_id
              /\ IsClassMember(r.arg.class_id, r.user.id)
             THEN Set(s, Read(r, "selectRole"))
             ELSE Set(s, Respond(Read(r, "selectMembership"), 403))
        /\ UNCHANGED <<store, issued, now>>
     \/ /\ r.pc = "selectRole"
        /\ IF \E u \in Users : /\ u.id = r.user.id
                               /\ u.role \in {"Professeur", "Coordinateur"}
             THEN Set(s, Read(r, "insertPublic"))
             ELSE Set(s, Respond(Read(r, "selectRole"), 403))
        /\ UNCHANGED <<store, issued, now>>
     \/ /\ r.pc = "insertPublic"
        /\ Messages' = Messages \cup
             {[id |-> NextId(Messages), sender_id |-> r.user.id,
               receiver_id |-> 0, class_id |-> r.arg.class_id,
               message_type |-> "public"]}
        /\ Set(s, Respond(Write(r), 201))
        /\ UNCHANGED <<Users, classTables, contentTables, Submissions,
                       projectTables, issued, now>>

\* ----------------------------------------------- projects and groups: setup
\* The classroom of the content section, its users registered with an email.
\* User 2 created class 2 as a Professeur, still holds that token, and has
\* since been given the role Coordinateur; 1 no longer holds an Etudiant
\* token. ClassMembers lists the members of UserClasses and Coordinator 4 as
\* a member of class 1. Project 1 of class 1 has group 1, with student 3.
ProjectUsers ==
  {[id |-> u.id, email |-> <<"u", u.id>>, motDePasse |-> Hash("p"),
    role |-> IF u.id = 2 THEN "Coordinateur" ELSE u.role] :
     u \in ClassroomUsers}

InitProjects ==
  /\ Users = ProjectUsers
  /\ issued = ClassroomTokens \ {JwtSign(1, "Etudiant")}
  /\ Classes = ClassroomClasses
  /\ UserClasses = ClassroomMembers
  /\ Announcements = {} /\ Documentations = {} /\ Tasks = {}
  /\ Submissions = {}
  /\ ClassMembers =
       {[class_id |-> m.class_id, user_id |-> m.user_id] :
          m \in ClassroomMembers} \cup {[class_id |-> 1, user_id |-> 4]}
  /\ Projets = {[id |-> 1, class_id |-> 1]}
  /\ Groupes = {[id |-> 1, projet_id |-> 1]}
  /\ MembresGroupe = {[group_id |-> 1, user_id |-> 3]}
  /\ GroupMembersTable = {}
  /\ Messages = {}
  /\ reqs = NoRequests
  /\ now = 0

\* Request inputs: ids of rows and one id no row has; the users a group
\* request names are a Teacher, two Students and nobody.
GroupIdParam == {Str(g.id) : g \in Groupes} \cup {Str(NextId(Groupes))}
UserToAdd    == {1, 3, 5, NextId(ProjectUsers)}
\* The receiver of a private message: missing, the id of a user or of
\* nobody as a number, the id of a user as a string.
ReceiverField ==
  {[type |-> "undefined", n |-> 0, s |-> <<>>]}
    \cup {[type |-> "number", n |-> n, s |-> <<>>] :
             n \in {1, 3, NextId(ProjectUsers)}}
    \cup {[type |-> "string", n |-> 0, s |-> Str(n)] : n \in {1, 3}}

StartProjects ==
  /\ CanStart
  /\ \/ \E tok \in Callers :
          \/ \E c \in ClassIds \cup {NoSuchClass} :
               Start("POST /api/projects", tok, [class_id |-> c])
          \/ \E p \in {x.id : x \in Projets} \cup {NextId(Projets)} :
               Start("POST /api/groups", tok, [projet_id |-> p])
          \/ \E g \in GroupIdParam, u \in UserToAdd :
               Start("POST /api/groups/:groupId/members", tok,
                     [groupId |-> g, user_id_to_add |-> u])
          \/ \E g \in GroupIdParam, u \in {3, 5} :
               Start("DELETE /api/groups/:groupId/members/:userId", tok,
                     [groupId |-> g, userId |-> Str(u)])
          \/ \E c \in Classes :
               Start("POST /api/classes/join", tok, [code |-> c.code])
     \/ \E e \in {<<"u", 1>>, <<"u", 9>>} :
          StartPublic("POST /api/auth/register",
                      [nom |-> "n", email |-> e, password |-> "p",
                       role |-> "Etudiant"])

NextProjects ==
  \/ StartProjects
  \/ \E s \in Slots :
       \/ Auth(s) \/ AuthorizeRole(s) \/ Finish(s)
       \/ PostProjects(s) \/ PostGroups(s)
       \/ AddGroupMember(s) \/ RemoveGroupMember(s)
       \/ JoinClass(s) \/ Register(s)

SpecProjects == InitProjects /\ [][NextProjects]_vars

\* GET /api/messages/private/me: ids of the rows of
\* SELECT ... FROM Messages M JOIN Users S ON M.sender_id = S.id
\* LEFT JOIN Users R ON M.receiver_id = R.id
\* WHERE (M.sender_id = ? OR M.receiver_id = ?) AND M.message_type = 'private'
GetEveryPrivateMessage(s) ==
  LET r == reqs[s] IN
  /\ r.route = "GET /api/messages/private/me"
  /\ \/ /\ r.pc = "handler"
        /\ Set(s, Connect(r, "selectRows"))
     \/ /\ r.pc = "selectRows"
        /\ Set(s, RespondWith(Read(r, "selectRows"), 200,
             {m.id : m \in {x \in Messages : x.message_type = "private"}}))
  /\ UNCHANGED <<store, issued, now>>
GetPrivateMessages(s) ==
  LET r == reqs[s] IN
  /\ r.route = "GET /api/messages/private/me"
  /\ \/ /\ r.pc = "handler"
        /\ Set(s, Connect(r, "selectRows"))
     \/ /\ r.pc = "selectRows"
        /\ Set(s, RespondWith(Read(r, "selectRows"), 200,
             {m.id : m \in {x \in Messages :
                /\ x.sender_id = r.user.id \/ x.receiver_id = r.user.id
                /\ x.message_type = "private"
                /\ \E u \in Users : u.id = x.sender_id}}))
  /\ UNCHANGED <<store, issued, now>>

\* Messages sent by the users of the same store, and the private messages
\* each of them lists.
StartMessages ==
  /\ CanStart
  /\ \E tok \in Callers :
       \/ \E to \in ReceiverField, text \in {<<>>, <<"x">>} :
            Start("POST /api/messages", tok,
                  [message_type |-> "private", receiver_id |-> to,
                   class_id |-> 0, content |-> text])
       \/ \E c \in {0} \cup ClassIds,
             type \in {"public", "urgent"}, text \in {<<" ">>, <<"x">>} :
            Start("POST /api/messages", tok,
                  [message_type |-> type,
                   receiver_id |-> [type |-> "undefined", n |-> 0,
                                    s |-> <<>>],
                   class_id |-> c, content |-> text])
       \/ Start("GET /api/messages/private/me", tok, <<>>)

NextMessages ==
  \/ StartMessages
  \/ \E s \in Slots :
       \/ Auth(s) \/ Finish(s)
       \/ PostMessages(s) \/ GetPrivateMessages(s)

SpecMessages == InitProjects /\ [][NextMessages]_vars

\* ---------------------------------------------- projects and groups: claims
\* A membership row (user, class) is in the store.
MemberOf(uid, cid) == [class_id |-> cid, user_id |-> uid] \in ClassMembers

\* The caller's role is Coordinator, in the token or in the store.
IsCoordinator(r) ==
  \/ ValidAs(r, "Coordinateur")
  \/ \E u \in Users : u.id = r.tok.id /\ u.role = "Coordinateur"

\* C14 as claimed: a project is created on class C only when the caller is
\* the Teacher who owns C, or is a Coordinator who has a membership row for
\* C; every other caller is refused and no Project row is inserted.
C14_OwnerOrMemberCoordinatorCreates ==
  \A s \in Slots :
    LET r == reqs[s] IN
    (Done(r) /\ r.route = "POST /api/projects") =>
      \/ r.tok.id \in OwnerOfClass(r.arg.class_id)
      \/ IsCoordinator(r) /\ MemberOf(r.tok.id, r.arg.class_id)
      \/ r.status \in {401, 403} /\ r.writes = 0

GroupRoutes ==
  {"POST /api/groups", "POST /api/groups/:groupId/members",
   "DELETE /api/groups/:groupId/members/:userId"}
\* The class of the project, or of the group's project, a group request names.
ClassOfGroupRequest(r) ==
  {info.class_id :
     info \in IF r.route = "POST /api/groups"
                THEN ProjectInfo(r.arg.projet_id)
                ELSE GroupInfo(r.arg.groupId)}
\* The caller is the Teacher who owns class c, or a Coordinator with a
\* membership row for c.
MayManageGroups(r, c) ==
  \/ ValidAs(r, "Professeur") /\ r.tok.id \in OwnerOfClass(c)
  \/ ValidAs(r, "Coordinateur") /\ MemberOf(r.tok.id, c)

\* C15: creating a group, adding a member and removing a member succeed, and
\* change Groupes or MembresGroupe, only for the Teacher who owns the class
\* of the group's project or a Coordinator with a membership row for that
\* class; a Coordinator without that row is answered 403 and writes nothing.
C15_OwnerOrMemberCoordinatorManages ==
  /\ [][(Groupes' # Groupes \/ MembresGroupe' # MembresGroupe) =>
          \E s \in Slots :
            /\ reqs[s].route \in GroupRoutes
            /\ reqs[s].pc \in {"insert", "delete"} /\ Done(reqs'[s])
            /\ \E c \in ClassOfGroupRequest(reqs[s]) :
                 MayManageGroups(reqs[s], c)]_vars
  /\ [](\A s \in Slots :
          LET r == reqs[s] IN
          (Done(r) /\ r.route \in GroupRoutes) =>
            /\ r.status \in {200, 201} =>
                 \E c \in ClassOfGroupRequest(r) : MayManageGroups(r, c)
            /\ (/\ ValidAs(r, "Coordinateur")
                /\ ClassOfGroupRequest(r) # {}
                /\ \A c \in ClassOfGroupRequest(r) :
                     ~MemberOf(r.tok.id, c)) =>
                 r.status = 403 /\ r.writes = 0)

\* C15 witness: a Coordinator without a membership row for the class of an
\* existing project or group was answered 403, on a store in which a group
\* request of a permitted caller has changed Groupes or MembresGroupe.
C15_Witness ==
  /\ \/ Groupes # {[id |-> 1, projet_id |-> 1]}
     \/ MembresGroupe # {[group_id |-> 1, user_id |-> 3]}
  /\ \E s \in Slots :
       LET r == reqs[s] IN
       /\ Done(r) /\ r.route \in GroupRoutes /\ ValidAs(r, "Coordinateur")
       /\ ClassOfGroupRequest(r) # {}
       /\ \A c \in ClassOfGroupRequest(r) : ~MemberOf(r.tok.id, c)
       /\ r.status = 403 /\ r.writes = 0

AddMemberRoute == "POST /api/groups/:groupId/members"

\* C16: a row (G, user) is inserted into MembresGroupe only by an add request
\* that names G and the user, when the user exists with the stored role
\* Student and has a membership row for the class of G's project; an add
\* request for any other user is refused and inserts nothing.
C16_OnlyEnrolledStudentAdded ==
  /\ [][\A m \in MembresGroupe' \ MembresGroupe :
          /\ \E u \in Users : u.id = m.user_id /\ u.role = "Etudiant"
          /\ \E g \in Groupes, p \in Projets :
               /\ g.id = m.group_id /\ p.id = g.projet_id
               /\ MemberOf(m.user_id, p.class_id)
          /\ \E s \in Slots :
               /\ reqs[s].route = AddMemberRoute /\ reqs[s].pc = "insert"
               /\ reqs[s].arg.user_id_to_add = m.user_id
               /\ SqlEq(m.group_id, reqs[s].arg.groupId)]_vars
  /\ [](\A s \in Slots :
          LET r == reqs[s] IN
          (/\ Done(r) /\ r.route = AddMemberRoute
           /\ \/ ~\E u \in Users : /\ u.id = r.arg.user_id_to_add
                                   /\ u.role = "Etudiant"
              \/ \A c \in ClassOfGroupRequest(r) :
                   ~MemberOf(r.arg.user_id_to_add, c)) =>
            r.status \in {400, 401, 403, 404} /\ r.writes = 0)

\* C16 witness: a permitted caller's request to add a Student who has no
\* membership row for the class of the group's project was answered 400,
\* and a Student who has one is in a group they were not in at the start.
C16_Witness ==
  /\ MembresGroupe \ {[group_id |-> 1, user_id |-> 3]} # {}
  /\ \E s \in Slots :
       LET r == reqs[s] IN
       /\ Done(r) /\ r.route = AddMemberRoute /\ r.status = 400
       /\ \E u \in Users : u.id = r.arg.user_id_to_add /\ u.role = "Etudiant"
       /\ \E c \in ClassOfGroupRequest(r) :
            MayManageGroups(r, c) /\ ~MemberOf(r.arg.user_id_to_add, c)

\* The answer to the request in slot s is sent in this step, with `code`,
\* and the step writes nothing.
RefusedWith(s, code) ==
  /\ Done(reqs'[s]) /\ reqs'[s].status = code /\ reqs'[s].writes = 0
  /\ UNCHANGED store

\* A register, join or add-member request is about to run the SELECT that
\* looks for the row it would duplicate, and that row is in the store.
EmailTaken(r) ==
  /\ r.route = "POST /api/auth/register" /\ r.pc = "selectEmail"
  /\ \E u \in Users : u.email = r.arg.email
AlreadyEnrolled(r) ==
  /\ r.route = "POST /api/classes/join" /\ r.pc = "selectEnrollment"
  /\ \E m \in UserClasses :
       m.user_id = r.tok.id /\ m.class_id = r.loc.classToJoin
AlreadyInGroup(r) ==
  /\ r.route = AddMemberRoute /\ r.pc = "selectExisting"
  /\ \E m \in MembresGroupe :
       SqlEq(m.group_id, r.arg.groupId) /\ m.user_id = r.arg.user_id_to_add

ClassCodesAllTaken == {"AAAAAA"}
ClassCodes == {"AAAAAA", "CCCCCC"}

\* POST /api/classes. The loop draws a code and selects the classes that
\* carry it until the SELECT returns nothing, at most MaxDraws times here;
\* the two INSERTs that follow are two statements.
PostClasses(s) ==
  LET r == reqs[s] IN
  /\ r.route = "POST /api/classes"
  /\ \/ /\ r.pc = "handler"
        /\ IF r.arg.nom = "" THEN Set(s, Respond(r, 400))
           ELSE \E code \in ClassCodes :
                  Set(s, [Connect(r, "selectCode") EXCEPT
                            !.loc = [classCode |-> code, insertId |-> 0]])
        /\ UNCHANGED <<store, issued, now>>
     \/ /\ r.pc = "selectCode"
        /\ IF \E c \in Classes : c.code = r.loc.classCode
             THEN /\ r.stmts + 1 < MaxDraws
                  /\ \E code \in ClassCodes :
                       Set(s, [Read(r, "selectCode") EXCEPT
                                 !.loc.classCode = code])
             ELSE Set(s, Read(r, "insertClass"))
        /\ UNCHANGED <<store, issued, now>>
     \/ /\ r.pc = "insertClass"
        /\ Classes' = Classes \cup
             {[id |-> NextId(Classes), code |-> r.loc.classCode,
               professeur_id |-> r.user.id]}
        /\ Set(s, [Write(r) EXCEPT !.pc = "insertOwner",
                                   !.loc.insertId = NextId(Classes)])
        /\ UNCHANGED <<Users, UserClasses, contentTables, Submissions,
                       projectTables, Messages, issued, now>>
     \/ /\ r.pc = "insertOwner"
        /\ UserClasses' = UserClasses \cup
             {[id |-> NextId(UserClasses), user_id |-> r.user.id,
               class_id |-> r.loc.insertId,
               role_dans_classe |-> "Professeur"]}
        /\ Set(s, RespondWith(Write(r), 201, {r.loc.insertId}))
        /\ UNCHANGED <<Users, Classes, contentTables, Submissions,
                       projectTables, Messages, issued, now>>

\* Class-creation and join requests that may overlap, each statement a step.
\* A join names class 2, which no Student of the start is enrolled in, or
\* the new code.
StartClassesRace ==
  /\ CanStartConcurrent
  /\ \E tok \in ValidTokens :
       \/ /\ tok.role = "Professeur"
          /\ StartConcurrent("POST /api/classes", tok, [nom |-> "x"])
       \/ /\ tok.role = "Etudiant"
          /\ \E code \in {"BBBBBB", "CCCCCC"} :
               StartConcurrent("POST /api/classes/join", tok, [code |-> code])

NextClassesRace ==
  \/ StartClassesRace
  \/ \E s \in Slots :
       \/ Auth(s) \/ AuthorizeRole(s) \/ Finish(s)
       \/ PostClasses(s) \/ JoinClass(s)

SpecClassesRace == InitContent /\ [][NextClassesRace]_vars

\* C18 as claimed: after any interleaving of class-creation and join
\* requests, the store holds at most one membership row per (user, class).
C18_OneRowPerUserAndClass ==
  \A m, n \in UserClasses :
    (m.user_id = n.user_id /\ m.class_id = n.class_id) => m = n

\* C19 as claimed: after any interleaving of class-creation requests, no two
\* Class rows carry the same join code: the code inserted for a new class is
\* one that no existing class uses.
C19_CodesUnique ==
  [][\A c \in Classes' \ Classes : \A d \in Classes : d.code # c.code]_vars

\* ---------------------------------------------------------- messages: claims
\* C20 as claimed: no private Message row has its sender equal to its
\* receiver: a private-message request whose receiver is the caller is
\* answered 400 and stores nothing, and one whose receiver does not exist is
\* answered 404 and stores nothing.
C20_NoMessageToSelf ==
  /\ \A m \in Messages :
       m.message_type = "private" => m.sender_id # m.receiver_id
  /\ \A s \in Slots :
       LET r == reqs[s] IN
       (/\ Done(r) /\ r.route = "POST /api/messages" /\ r.tok.kind = "valid"
        /\ r.arg.message_type = "private" /\ r.arg.content = <<"x">>
        /\ r.arg.receiver_id.type # "undefined") =>
         /\ SqlMatch(r.tok.id, r.arg.receiver_id) =>
              r.status = 400 /\ r.writes = 0
         /\ (~\E u \in Users : SqlMatch(u.id, r.arg.receiver_id)) =>
              r.status = 404 /\ r.writes = 0

\* A public message with a text and a class, sent with a valid token.
PublicMessage(r) ==
  /\ r.route = "POST /api/messages" /\ r.tok.kind = "valid"
  /\ r.arg.message_type = "public" /\ r.arg.content = <<"x">>
  /\ r.arg.class_id # 0
\* The sender has a membership row for the class and the stored role Teacher
\* or Coordinator.
MaySendPublic(uid, cid) ==
  /\ MemberOf(uid, cid)
  /\ \E u \in Users : u.id = uid /\ u.role \in {"Professeur", "Coordinateur"}

\* C21: a public Message row of class C is inserted only for a sender who has
\* a membership row for C and whose stored role is Teacher or Coordinator; a
\* sender failing either condition is answered 403 and inserts nothing.
C21_PublicByMemberStaff ==
  /\ [][\A m \in Messages' \ Messages :
          m.message_type = "public" =>
            /\ MaySendPublic(m.sender_id, m.class_id)
            /\ \E s \in Slots :
                 /\ PublicMessage(reqs[s]) /\ reqs[s].pc = "insertPublic"
                 /\ reqs[s].tok.id = m.sender_id
                 /\ reqs[s].arg.class_id = m.class_id]_vars
  /\ [](\A s \in Slots :
          LET r == reqs[s] IN
          (Done(r) /\ PublicMessage(r)) =>
            IF MaySendPublic(r.tok.id, r.arg.class_id)
              THEN r.status = 201 /\ r.writes = 1
              ELSE r.status = 403 /\ r.writes = 0)

\* C21 witness: with a public message of a Teacher stored, a Student who has
\* a membership row for the class was answered 403.
C21_Witness ==
  /\ \E m \in Messages : m.message_type = "public"
  /\ \E s \in Slots :
       LET r == reqs[s] IN
       /\ Done(r) /\ PublicMessage(r) /\ r.status = 403 /\ r.stmts = 2
       /\ MemberOf(r.tok.id, r.arg.class_id)
       /\ \E u \in Users : u.id = r.tok.id /\ u.role = "Etudiant"

\* ------------------------------------------------------------- stale tokens
\* C22: the role gate of a request uses the role recorded in its token,
\* whatever the user's stored role has become; changing a stored role signs
\* and alters no token; and a token is signed with the role stored for its
\* user at that moment, so the new role is found only in tokens signed after
\* the change.
C22_GateUsesTokenRole ==
  /\ [][\A s \in Slots :
          reqs[s].pc = "role" =>
            IF reqs[s].tok.role = "Coordinateur"
              THEN reqs'[s].pc = "handler"
              ELSE /\ Done(reqs'[s]) /\ reqs'[s].status = 403
                   /\ reqs'[s].stmts = 0]_vars
  /\ [][/\ issued \subseteq issued'
        /\ \A t \in issued' \ issued :
             \E u \in Users' : u.id = t.id /\ u.role = t.role
        /\ (\E u \in Users, v \in Users' : u.id = v.id /\ u.role # v.role)
             => issued' = issued]_vars

\* C22 witness: user 2, demoted, has logged in again and holds a token of
\* each role; the role-update sent with the older one was answered 200.
C22_Witness ==
  /\ {JwtSign(2, "Coordinateur"), JwtSign(2, "Etudiant")} \subseteq issued
  /\ \E u \in Users : u.id = 2 /\ u.role = "Etudiant"
  /\ \E s \in Slots :
       LET r == reqs[s] IN
       /\ Done(r) /\ r.route = RoleUpdateRoute /\ r.status = 200
       /\ r.tok = [kind |-> "valid", id |-> 2, role |-> "Coordinateur"]

\* GET /api/projects/class/:classId: the membership test that the public
\* messages of a class and its student list repeat (server.js:834-841,
\* 1265-1272), then the projects of the class.
GetProjectsOfClass(s) ==
  LET r == reqs[s] IN
  /\ r.route = "GET /api/projects/class/:classId"
  /\ \/ /\ r.pc = "handler"
        /\ Set(s, Connect(r, "selectMember"))
     \/ /\ r.pc = "selectMember"
        /\ IF \E m \in ClassMembers : /\ SqlEq(m.class_id, r.arg.classId)
                                      /\ m.user_id = r.user.id
             THEN Set(s, Read(r, "selectRows"))
             ELSE Set(s, Respond(Read(r, "selectMember"), 403))
     \/ /\ r.pc = "selectRows"
        /\ Set(s, RespondWith(Read(r, "selectRows"), 200,
                 {p.id : p \in {q \in Projets :
                                  SqlEq(q.class_id, r.arg.classId)}}))
  /\ UNCHANGED <<store, issued, now>>

\* ------------------------------------------------------------------ faults
\* A store statement of a request that holds a connection rejects: the
\* handler's catch answers 500 and its finally ends the connection.
StatementFails(s) ==
  LET r == reqs[s] IN
  /\ r.conn = "open" /\ r.pc \notin {"idle", "done"}
  /\ Set(s, Respond(r, 500))
  /\ UNCHANGED <<store, issued, now>>

\* The project, group, join and register requests of above, class creation
\* and the list of a class's projects, one at a time, any statement of which
\* may fail.
StartFaults ==
  \/ StartProjects
  \/ /\ CanStart
     /\ \E tok \in Callers :
          \/ \E nom \in {"", "x"} :
               Start("POST /api/classes", tok, [nom |-> nom])
          \/ \E c \in ClassIds :
               Start("GET /api/projects/class/:classId", tok,
                     [classId |-> Str(c)])

NextFaults ==
  \/ StartFaults
  \/ \E s \in Slots :
       \/ Auth(s) \/ AuthorizeRole(s) \/ Finish(s)
       \/ PostProjects(s) \/ PostGroups(s)
       \/ AddGroupMember(s) \/ RemoveGroupMember(s)
       \/ JoinClass(s) \/ Register(s) \/ PostClasses(s)
       \/ GetProjectsOfClass(s) \/ StatementFails(s)

SpecFaults == InitProjects /\ [][NextFaults]_vars

\* C23: a request that has been answered, whatever the answer, holds no
\* open connection; nor does a slot without a request.
C23_ConnectionsReleased ==
  \A s \in Slots : reqs[s].pc \in {"idle", "done"} => reqs[s].conn # "open"

\* C23 witness: a request answered 500 after a statement of it failed, its
\* connection ended.
C23_Witness ==
  \E s \in Slots :
    /\ Done(reqs[s]) /\ reqs[s].status = 500
    /\ reqs[s].stmts > 0 /\ reqs[s].conn = "closed"

\* C24: class creation is all or nothing. A creation answered with an error
\* has written nothing, one answered 201 has written both rows, and while no
\* request is being handled every class has the membership row of its owner.
C24_CreationAllOrNothing ==
  /\ \A s \in Slots :
       LET r == reqs[s] IN
       (Done(r) /\ r.route = "POST /api/classes") =>
         IF r.status = 201 THEN r.writes = 2 ELSE r.writes = 0
  /\ (\A s \in Slots : reqs[s].pc \in {"idle", "done"}) =>
       \A c \in Classes :
         \E m \in UserClasses :
           m.class_id = c.id /\ m.user_id = c.professeur_id

\* ---------------------------------------------------------- missing fields
\* A message request that lacks a field the handler requires: the text, or
\* the receiver of a private message, or the class of a public one.
MissingField(r) ==
  /\ r.route = "POST /api/messages" /\ r.tok.kind = "valid"
  /\ \/ r.arg.content = <<>>
     \/ r.arg.message_type = "private" /\ r.arg.receiver_id.type = "undefined"
     \/ r.arg.message_type = "public" /\ r.arg.class_id = 0

\* C25: a request that lacks a required field is answered 400, and the 400
\* comes before any store access: no statement has run and no connection
\* has been acquired.
C25_MissingFieldRefusedFirst ==
  \A s \in Slots :
    LET r == reqs[s] IN
    (Done(r) /\ MissingField(r)) =>
      r.status = 400 /\ r.stmts = 0 /\ r.conn = "none"

\* ---------------------------------------------------------------- refusals
\* The project, group, join and register requests of above together with
\* role updates and deletions of users, one request at a time.
StartRefusals ==
  \/ StartProjects
  \/ /\ CanStart
     /\ \E tok \in Callers, u \in {1, 2, 4, NextId(ProjectUsers)} :
          \/ \E role \in {"", "Etudiant"} :
               Start("PUT /api/users/:userId/role", tok,
                     [userId |-> Str(u), role |-> role])
          \/ Start("DELETE /api/users/:userId", tok, [userId |-> Str(u)])

NextRefusals ==
  \/ StartRefusals
  \/ \E s \in Slots :
       \/ Auth(s) \/ AuthorizeRole(s) \/ Finish(s)
       \/ PostProjects(s) \/ PostGroups(s)
       \/ AddGroupMember(s) \/ RemoveGroupMember(s)
       \/ JoinClass(s) \/ Register(s)
       \/ PutUserRole(s) \/ DeleteUser(s)

SpecRefusals == InitProjects /\ [][NextRefusals]_vars

Refusals == {400, 401, 403, 404, 409}

\* C26: a request that ends with 400, 401, 403, 404 or 409 has changed no
\* table. Step by step: the step that answers with one of these codes
\* changes no table, and a step that does change a table answers its
\* request with 200 or 201 at once, so no earlier step of a refused request
\* changed one either.
C26_RefusalChangesNothing ==
  /\ [][\A s \in Slots :
          (reqs[s].pc # "done" /\ Done(reqs'[s])
             /\ reqs'[s].status \in Refusals) => store' = store]_vars
  /\ [][store' # store =>
          \E s \in Slots : /\ reqs[s].pc \notin {"idle", "done"}
                           /\ Done(reqs'[s])
                           /\ reqs'[s].status \in {200, 201}]_vars

\* C26 witness: a removal from a group answered 404 after its DELETE ran
\* and matched no row.
C26_Witness ==
  \E s \in Slots :
    LET r == reqs[s] IN
    /\ Done(r) /\ r.route = "DELETE /api/groups/:groupId/members/:userId"
    /\ r.status = 404 /\ r.writes = 1

\* ------------------------------------------------ class creation: liveness
\* The iterations of the uniqueness loop beyond those PostClasses counts:
\* the SELECT found the code in use and another code is drawn.
DrawAgain(s) ==
  LET r == reqs[s] IN
  /\ r.route = "POST /api/classes" /\ r.pc = "selectCode"
  /\ \E c \in Classes : c.code = r.loc.classCode
  /\ r.stmts + 1 >= MaxDraws
  /\ \E code \in ClassCodes : Set(s, [r EXCEPT !.loc.classCode = code])
  /\ UNCHANGED <<store, issued, now>>

\* Class-creation requests, one at a time.
StartClasses ==
  /\ CanStart
  /\ \E tok \in Callers, nom \in {"", "x"} :
       Start("POST /api/classes", tok, [nom |-> nom])

NextClasses ==
  \/ StartClasses
  \/ \E s \in Slots :
       \/ Auth(s) \/ AuthorizeRole(s) \/ Finish(s)
       \/ PostClasses(s) \/ DrawAgain(s)

\* generateClassCode() returns `code` to the request in slot s.
Draws(s, code) ==
  /\ PostClasses(s) \/ DrawAgain(s)
  /\ reqs'[s].pc = "selectCode" /\ reqs'[s].loc.classCode = code

\* Every middleware and every statement of a request in progress completes,
\* and no code is left out of the draws for ever.
SpecClassesLive ==
  /\ InitContent /\ [][NextClasses]_vars
  /\ \A s \in Slots :
       /\ WF_vars(Auth(s)) /\ WF_vars(AuthorizeRole(s))
       /\ WF_vars(PostClasses(s) /\ reqs'[s].pc # "selectCode")
       /\ \A code \in {"AAAAAA", "CCCCCC"} : SF_vars(Draws(s, code))

\* C27: while the code CCCCCC is unused, a create-class request that has
\* been received is eventually answered; and the loop is left only with the
\* code that its last SELECT found no class to carry.
C27_CreationAnswered ==
  /\ \A s \in Slots :
       (/\ reqs[s].route = "POST /api/classes"
        /\ reqs[s].pc \notin {"idle", "done"}
        /\ \A c \in Classes : c.code # "CCCCCC") ~> Done(reqs[s])
  /\ [][\A s \in Slots :
          (reqs[s].pc = "selectCode" /\ reqs'[s].pc # "selectCode") =>
            /\ reqs'[s].pc = "insertClass"
            /\ reqs'[s].loc.classCode = reqs[s].loc.classCode
            /\ \A c \in Classes : c.code # reqs[s].loc.classCode]_vars

\* C27 witness: a creation answered 201 after its loop drew a code in use
\* at least once.
C27_Witness ==
  \E s \in Slots :
    LET r == reqs[s] IN
    /\ Done(r) /\ r.route = "POST /api/classes"
    /\ r.status = 201 /\ r.stmts >= 4

\* ------------------------------------------------------------ group leader
\* SELECT isGroupCoordinator FROM GroupMembers
\* WHERE groupId = ? AND userId = ?
LeaderRowsOfCaller(groupId, userId) ==
  {m \in GroupMembersTable : m.userId = userId}
LeaderRows(groupId, userId) ==
  {m \in GroupMembersTable : SqlEq(m.groupId, groupId) /\ m.userId = userId}

\* checkIsGroupCoordinator, a middleware the file exports and mounts on no
\* route. When it calls next() the request leaves it at "next".
CheckIsGroupCoordinator(s) ==
  LET r == reqs[s] IN
  /\ r.route = "checkIsGroupCoordinator"
  /\ \/ /\ r.pc = "handler"
        /\ IF r.user = NoUser \/ r.user.id = 0
             THEN Set(s, Respond(r, 401))
             ELSE Set(s, Connect(r, "selectLeader"))
     \/ /\ r.pc = "selectLeader"
        /\ LET rows == LeaderRows(r.arg.groupId, r.user.id) IN
           IF rows = {}
             THEN Set(s, Respond(Read(r, "selectLeader"), 403))
             ELSE \E first \in rows :
                    IF first.isGroupCoordinator # 0
                      THEN Set(s, [Read(r, "next") EXCEPT !.conn = "closed"])
                      ELSE Set(s, Respond(Read(r, "selectLeader"), 403))
  /\ UNCHANGED <<store, issued, now>>

\* The users and tokens of above and a GroupMembers table, which no handler
\* writes: any rows of user 3 (a Student) in groups 1 and 2 and of user 4
\* (a Coordinator) in group 1, at most one row for a group and a user.
InitLeaders ==
  /\ Users = ProjectUsers
  /\ issued = ClassroomTokens \ {JwtSign(1, "Etudiant")}
  /\ Classes = ClassroomClasses
  /\ UserClasses = ClassroomMembers
  /\ Announcements = {} /\ Documentations = {} /\ Tasks = {}
  /\ Submissions = {}
  /\ ClassMembers = {}
  /\ Projets = {[id |-> 1, class_id |-> 1]}
  /\ Groupes = {[id |-> 1, projet_id |-> 1], [id |-> 2, projet_id |-> 1]}
  /\ MembresGroupe = {}
  /\ GroupMembersTable \in
       {t \in SUBSET ([groupId : {1, 2}, userId : {3},
                       isGroupCoordinator : {0, 1}]
                        \cup [groupId : {1}, userId : {4},
                              isGroupCoordinator : {0, 1}]) :
          \A a, b \in t :
            (a.groupId = b.groupId /\ a.userId = b.userId) => a = b}
  /\ Messages = {}
  /\ reqs = NoRequests
  /\ now = 0

\* Requests as they reach the check: req.user is what `auth` attached from
\* a valid token, or nothing when the chain has no `auth` before the check;
\* :groupId names group 1, group 2 or no group.
NextLeaders ==
  \/ /\ CanStartConcurrent
     /\ \E g \in {1, 2, 3},
           tok \in {NoToken} \cup {t \in ValidTokens : t.id \in {3, 4}},
           s \in Slots :
          /\ reqs[s].pc = "idle"
          /\ \A t \in Slots : t < s => reqs[t].pc # "idle"
          /\ Set(s, [NewRequest("checkIsGroupCoordinator", tok,
                                [groupId |-> Str(g)])
                       EXCEPT !.pc = "handler",
                              !.user = IF tok.kind = "valid"
                                         THEN [id |-> tok.id,
                                               role |-> tok.role]
                                         ELSE NoUser])
     /\ now' = now + 1
     /\ UNCHANGED <<store, issued>>
  \/ \E s \in Slots : Finish(s) \/ CheckIsGroupCoordinator(s)

SpecLeaders == InitLeaders /\ [][NextLeaders]_vars

\* The store holds a row of the request's group and caller with the flag.
LeaderOfGroup(r) ==
  \E m \in GroupMembersTable :
    /\ Str(m.groupId) = r.arg.groupId /\ m.userId = r.tok.id
    /\ m.isGroupCoordinator = 1

\* C28: the check passes a request on exactly when the store holds a row of
\* the request's group and the caller whose flag is true; it answers 401
\* when no identity is attached and 403 otherwise, whatever the token's
\* role.
C28_LeaderCheck ==
  \A s \in Slots :
    LET r == reqs[s] IN
    (r.route = "checkIsGroupCoordinator" /\ r.pc \in {"next", "done"}) =>
      IF r.user = NoUser THEN r.pc = "done" /\ r.status = 401
      ELSE IF LeaderOfGroup(r) THEN r.pc = "next"
      ELSE r.pc = "done" /\ r.status = 403

\* C28 witness: the Coordinator, who has a row without the flag, has been
\* refused, and a Student who has the flag has been let through.
C28_Witness ==
  \E s, t \in Slots :
    /\ reqs[s].tok.role = "Coordinateur" /\ Done(reqs[s])
    /\ reqs[s].status = 403 /\ reqs[s].stmts = 1
    /\ \E m \in GroupMembersTable :
         /\ Str(m.groupId) = reqs[s].arg.groupId /\ m.userId = reqs[s].tok.id
    /\ reqs[t].tok.role = "Etudiant" /\ reqs[t].pc = "next"

\* -------------------------------------------------------------------- roles
\* C29: the role of every Users row is Etudiant, Professeur or Coordinateur.
C29_RolesOfTheEnumeration == \A u \in Users : u.role \in Roles

\* --------------------------------------------------- submissions: enrolment
\* The membership rows of the caller for the class of the task the request
\* names, and the tasks it names.
TaskNamed(r) == {t \in Tasks : Str(t.id) = r.arg.taskId}
EnrolledForTask(r) ==
  \E t \in TaskNamed(r), m \in UserClasses :
    m.user_id = r.tok.id /\ m.class_id = t.class_id

\* C30: a submit request with a body, sent with a Student's token, is
\* answered 404 and writes nothing when the task does not exist, 403 and
\* writes nothing when the caller has no membership row for the task's
\* class, and is accepted otherwise; and every Submissions row written
\* belongs to a task and to a user who has a membership row for that task's
\* class when the row is written.
C30_SubmitOnlyWhenEnrolled ==
  /\ [](\A s \in Slots :
          LET r == reqs[s] IN
          (/\ Done(r) /\ r.route = SubmitRoute /\ ValidAs(r, "Etudiant")
           /\ (r.arg.file_path # "" \/ r.arg.content # "")) =>
            IF TaskNamed(r) = {} THEN r.status = 404 /\ r.writes = 0
            ELSE IF ~EnrolledForTask(r) THEN r.status = 403 /\ r.writes = 0
            ELSE r.status \in {200, 201} /\ r.writes = 1)
  /\ [][\A x \in Submissions' \ Submissions :
          \E t \in Tasks, m \in UserClasses :
            /\ t.id = x.task_id
            /\ m.user_id = x.student_id /\ m.class_id = t.class_id]_vars

\* C30 witness: a Student enrolled in class 1 only was refused on the task
\* of class 2 after the two SELECTs, and a submission is in the store.
C30_Witness ==
  /\ Submissions # {}
  /\ \E s \in Slots :
       LET r == reqs[s] IN
       /\ Done(r) /\ r.route = SubmitRoute /\ ValidAs(r, "Etudiant")
       /\ TaskNamed(r) # {} /\ ~EnrolledForTask(r)
       /\ r.status = 403 /\ r.stmts = 2
       /\ \E m \in UserClasses : m.user_id = r.tok.id

\* ------------------------------------------------ submissions: resubmission
\* C31: the write of a submit request answered 200 keeps the number of rows
\* and, of every row, the id, the task, the student, the grade and the
\* correction feedback; the rows of other (task, student) pairs are left as
\* they are, and the row of the pair takes the request's file_path and
\* content and the time of the write.
C31_ResubmissionKeepsGrade ==
  [][\A s \in Slots :
       LET r == reqs[s] IN
       (/\ r.route = SubmitRoute /\ r.pc = "upsert"
        /\ Done(reqs'[s]) /\ reqs'[s].status = 200) =>
         /\ Cardinality(Submissions') = Cardinality(Submissions)
         /\ \A x \in Submissions :
              \E y \in Submissions' :
                /\ y.id = x.id /\ y.task_id = x.task_id
                /\ y.student_id = x.student_id /\ y.grade = x.grade
                /\ y.correction_feedback = x.correction_feedback
                /\ IF x.task_id = SqlInt(r.arg.taskId)
                        /\ x.student_id = r.tok.id
                     THEN /\ y.file_path = r.arg.file_path
                          /\ y.content = r.arg.content
                          /\ y.submitted_at = now
                     ELSE y = x]_vars

\* C31 witness: a graded submission has been overwritten by a resubmission
\* with another content and still carries the grade.
C31_Witness ==
  \E s \in Slots, x \in Submissions :
    LET r == reqs[s] IN
    /\ Done(r) /\ r.route = SubmitRoute /\ r.status = 200
    /\ x.task_id = SqlInt(r.arg.taskId) /\ x.student_id = r.tok.id
    /\ x.grade = "A" /\ x.content = "b" /\ x.submitted_at = now

\* ------------------------------------------------ submissions: confidentiality
ListRoute == "GET /api/tasks/:taskId/submissions"
OwnsTaskNamed(r) ==
  \E t \in Tasks : Str(t.id) = r.arg.taskId /\ t.professeur_id = r.tok.id

\* C32: the list of the submissions of a task is answered 200, with the
\* submissions of that task and no other, to a caller with a Teacher's token
\* whose id is the task's professeur_id; every other caller with a Teacher's
\* token is answered 403 after the one SELECT, without any submission.
C32_ListOnlyToTaskOwner ==
  \A s \in Slots :
    LET r == reqs[s] IN
    (Done(r) /\ r.route = ListRoute /\ ValidAs(r, "Professeur")) =>
      IF OwnsTaskNamed(r)
        THEN /\ r.status = 200
             /\ r.body = {x.id : x \in {y \in Submissions :
                                          Str(y.task_id) = r.arg.taskId}}
        ELSE r.status = 403 /\ r.body = {} /\ r.stmts = 1

\* C32 witness: Teacher 2 asked for the submissions of task 1, which has
\* one and belongs to Teacher 1, and was answered 403.
C32_Witness ==
  \E s \in Slots :
    LET r == reqs[s] IN
    /\ Done(r) /\ r.route = ListRoute /\ ValidAs(r, "Professeur")
    /\ r.tok.id = 2 /\ r.arg.taskId = Str(1) /\ r.status = 403
    /\ \E x \in Submissions : x.task_id = 1

\* C33: whatever the role of the token, a submission fetched by id is
\* returned only to the student it belongs to or to the owner of its task;
\* every other caller receives nothing of it.
C33_ContentsOnlyToSelfOrOwner ==
  \A s \in Slots :
    LET r == reqs[s] IN
    (/\ Done(r) /\ r.route = "GET /api/submissions/:submissionId"
     /\ r.tok.kind = "valid") =>
      \A x \in SubmissionNamed(r.arg.submissionId) :
        (r.tok.id # x.student_id /\ r.tok.id \notin OwnerOfTask(x.task_id))
          => r.status = 403 /\ r.body = {}

\* ------------------------------------------------------ users: coordinators
\* C34: a step taken while the store holds a Coordinator leaves it with a
\* Coordinator.
C34_CoordinatorRemains ==
  [][Coordinators # {} =>
       \E u \in Users' : u.role = "Coordinateur"]_vars

\* ------------------------------------------------- enrolment and its readers
\* C35: a caller who holds the membership row that creating or joining a
\* class records is not refused the list of that class's projects.
C35_EnrolledPassesClassReads ==
  \A s \in Slots :
    LET r == reqs[s] IN
    (/\ Done(r) /\ r.route = "GET /api/projects/class/:classId"
     /\ r.tok.kind = "valid"
     /\ \E m \in UserClasses :
          m.user_id = r.tok.id /\ Str(m.class_id) = r.arg.classId)
      => r.status # 403

\* ------------------------------------------------------------ class owners
\* The owner recorded on the class is a user whose stored role is Teacher.
OwnedByTeacher(c, users) ==
  \E u \in users : u.id = c.professeur_id /\ u.role = "Professeur"

\* C36: no step takes from a class its owner: a class owned by an existing
\* user whose stored role is Teacher is, after any step, the same class with
\* the same owner, still an existing user whose stored role is Teacher.
C36_OwnerIsAnExistingTeacher ==
  [][\A c \in Classes :
       OwnedByTeacher(c, Users) =>
         /\ \E d \in Classes' :
              d.id = c.id /\ d.professeur_id = c.professeur_id
         /\ OwnedByTeacher(c, Users')]_vars

\* -------------------------------------------------------------- task owners
\* C37: the professeur_id of every task is the professeur_id of the task's
\* class, and every task inserted is inserted by a request of that owner.
C37_TaskOwnerIsClassOwner ==
  /\ [](\A t \in Tasks :
          \E c \in Classes :
            c.id = t.class_id /\ c.professeur_id = t.professeur_id)
  /\ [][\A t \in Tasks' \ Tasks :
          \E s \in Slots :
            /\ reqs[s].route = "POST /api/tasks" /\ reqs[s].pc = "insert"
            /\ reqs[s].tok.id = t.professeur_id
            /\ reqs[s].arg.class_id = t.class_id]_vars

\* C37 witness: a task is in the store, and a Teacher who does not own the
\* class they named has been refused the creation of one.
C37_Witness ==
  /\ Tasks # {}
  /\ \E s \in Slots :
       LET r == reqs[s] IN
       /\ Done(r) /\ r.route = "POST /api/tasks" /\ ValidAs(r, "Professeur")
       /\ r.status = 403 /\ r.stmts = 1
       /\ \E c \in Classes :
            c.id = r.arg.class_id /\ c.professeur_id # r.tok.id

\* ------------------------------------------------- messages: private listing
\* C38: every message the private listing returns to a caller is a private
\* message that the caller sent or received.
C38_OnlyOwnPrivateMessages ==
  \A s \in Slots :
    LET r == reqs[s] IN
    (/\ Done(r) /\ r.route = "GET /api/messages/private/me"
     /\ r.tok.kind = "valid") =>
      /\ r.status = 200
      /\ \A id \in r.body :
           \E m \in Messages :
             /\ m.id = id /\ m.message_type = "private"
             /\ m.sender_id = r.tok.id \/ m.receiver_id = r.tok.id

\* C38 witness: the store holds a private message between two other users,
\* and the caller's listing returned a message of the caller's and not
\* that one.
C38_Witness ==
  \E s \in Slots, other \in Messages :
    LET r == reqs[s] IN
    /\ Done(r) /\ r.route = "GET /api/messages/private/me"
    /\ r.status = 200 /\ r.body # {}
    /\ other.message_type = "private"
    /\ other.sender_id # r.tok.id /\ other.receiver_id # r.tok.id
    /\ other.id \notin r.body

\* ------------------------------------------- classes: creation and joining
\* C39: the INSERT of a create-class request adds one class owned by the
\* caller; the step that answers it 201 adds exactly one membership row
\* (caller, new class, 'Professeur') for a caller whose token says Teacher;
\* the step that answers a join 200 adds exactly one membership row
\* (caller, class of the code, 'Etudiant') and changes no other table.
C39_CreateAndJoinRecordOneRow ==
  [][\A s \in Slots :
       LET r == reqs[s]
           newClasses == Classes' \ Classes
           newRows == UserClasses' \ UserClasses IN
       /\ (/\ r.route = "POST /api/classes"
           /\ r.pc = "insertClass" /\ reqs'[s].pc = "insertOwner") =>
            /\ Classes \subseteq Classes'
            /\ Cardinality(newClasses) = 1
            /\ \A c \in newClasses :
                 c.professeur_id = r.tok.id /\ c.id = reqs'[s].loc.insertId
       /\ (/\ r.route = "POST /api/classes"
           /\ r.pc # "done" /\ reqs'[s].pc = "done"
           /\ reqs'[s].status = 201) =>
            /\ r.tok.kind = "valid" /\ r.tok.role = "Professeur"
            /\ UserClasses \subseteq UserClasses'
            /\ Cardinality(newRows) = 1
            /\ \A m \in newRows :
                 /\ m.user_id = r.tok.id
                 /\ m.role_dans_classe = "Professeur"
                 /\ m.class_id \in reqs'[s].body
                 /\ \E c \in Classes' :
                      c.id = m.class_id /\ c.professeur_id = r.tok.id
            /\ UNCHANGED <<Users, Classes, contentTables, Submissions,
                           projectTables, Messages>>
       /\ (/\ r.route = "POST /api/classes/join"
           /\ r.pc # "done" /\ reqs'[s].pc = "done"
           /\ reqs'[s].status = 200) =>
            /\ r.tok.kind = "valid"
            /\ UserClasses \subseteq UserClasses'
            /\ Cardinality(newRows) = 1
            /\ \A m \in newRows :
                 /\ m.user_id = r.tok.id
                 /\ m.role_dans_classe = "Etudiant"
                 /\ \E c \in Classes :
                      c.id = m.class_id /\ c.code = r.arg.code
            /\ UNCHANGED <<Users, Classes, contentTables, Submissions,
                           projectTables, Messages>>]_vars

\* C39 witness: a join was answered 200 for a class that a request created,
\* whose owner holds the 'Professeur' row of that class and the caller the
\* 'Etudiant' row.
C39_Witness ==
  \E s \in Slots, c \in Classes :
    LET r == reqs[s] IN
    /\ Done(r) /\ r.route = "POST /api/classes/join" /\ r.status = 200
    /\ c.code = r.arg.code /\ c.code = "CCCCCC"
    /\ \E m \in UserClasses :
         /\ m.class_id = c.id /\ m.user_id = c.professeur_id
         /\ m.role_dans_classe = "Professeur"
    /\ \E m \in UserClasses :
         /\ m.class_id = c.id /\ m.user_id = r.tok.id
         /\ m.role_dans_classe = "Etudiant"
====
